---- MODULE Spec2Model ----
(***************************************************************************)
(* Signaling server of the voice-party SFU: the token codec                *)
(* (apps/sfu/src/token.ts) and the session / room / media lifecycle of the *)
(* token-gated server (apps/sfu/src/server.ts).                            *)
(***************************************************************************)
EXTENDS Integers, Sequences, FiniteSets, TLC

\* ------------------------------------------------------------------ bounds
\* The token clock runs over 1..MaxNow (seconds since the epoch are positive).
MaxNow == 3
\* Connections accepted by the server in one run.
MaxConn == 2
\* Client, Room, WebRtcTransport and Producer objects created in one run.
MaxPeers == 3
MaxRooms == 2
MaxTransports == 1
\* Transports created in a run in which a client renews its transports.
MaxRenewed == 2
MaxProducers == 1
\* Producers created in a run in which the level observer is watched.
MaxLoud == 2
\* Consumer objects created in a run in which clients consume.
MaxConsumers == 1
\* Connections made in a run in which a peer re-enters a room beside another.
MaxRejoin == 3
\* Request handlers suspended at an await at the same time.
MaxPending == 2

\* ------------------------------------------------------- program constants
\* token.ts: "if (payload.iat > now + 30)"
SkewSec == 30

\* ------------------------------------------------------------- identifiers
\* "" stands for an absent / empty string field, 0 for an absent / zero number.
RoomIds == {"r1", "r2"}
PeerIds == {"p1", "p2"}
SessionIds == {"s1", "s2", "s3"}
\* Token nonces are numbered; 0 stands for an absent jti.
TokJtis == {1, 2}

\* Session ids "s_" + rid() generated by the server.
GenSessionIds == {"g1"}
AllSessionIds == SessionIds \cup GenSessionIds
ConnIds == 1..MaxConn
PeerOids == 1..MaxPeers
RoomOids == 1..MaxRooms
TransportIds == 1..MaxTransports
ProducerIds == 1..MaxProducers

VARIABLES
  now,         \* Math.floor(Date.now() / 1000) as verifyToken reads it
  usedJti,     \* token.ts usedJti: jti -> exp (0: no entry)
  tokCall,     \* the last verifyToken call: its token, options, time and outcome
  acceptedExp, \* history: jti -> greatest exp of a token accepted with consumeJti
  conns,       \* the WebSocket objects: state, close code and token binding
  sessions,    \* server.ts sessions: sessionId -> Client object (0: no entry)
  peerHeap,    \* the Client objects ever created, by object id
  rooms,       \* server.ts rooms: roomId -> Room object (0: no entry)
  roomHeap,    \* the Room objects ever created, by object id
  transports,  \* media engine: the WebRtcTransports ever created
  producers,   \* media engine: the Producers ever created
  pending,     \* request handlers suspended at an await
  resumed,     \* history: the room members whose armed grace timer a join or
               \* resumeSession cancelled, until a grace timer is armed for them again
  out,         \* the send() and close(code, reason) calls of the last step, in order
  rec          \* the message types this run records in `out` (fixed at the start)

tokVars == <<now, usedJti, tokCall, acceptedExp>>
srvVars == <<conns, sessions, peerHeap, rooms, roomHeap, transports, producers,
             pending, resumed, out, rec>>
vars == <<now, usedJti, tokCall, acceptedExp, conns, sessions, peerHeap, rooms,
          roomHeap, transports, producers, pending, resumed, out, rec>>

\* =========================================================================
\* token.ts
\* =========================================================================

\* A token as verifyToken sees it: fmt is the outcome of the split / signature
\* steps, the other fields are the parsed payload.
Token(fmt, roomId, peerId, sessionId, jti, iat, exp) ==
  [fmt |-> fmt, roomId |-> roomId, peerId |-> peerId, sessionId |-> sessionId,
   jti |-> jti, iat |-> iat, exp |-> exp]

VerifyOpts(consumeJti, expectedRoomId, expectedPeerId, expectedSessionId) ==
  [consumeJti |-> consumeJti, expectedRoomId |-> expectedRoomId,
   expectedPeerId |-> expectedPeerId, expectedSessionId |-> expectedSessionId]

\* A reaper that forgets a nonce one second before its token expires.
cleanupUsedJti_early(used, nowSec) ==
  [j \in DOMAIN used |-> IF used[j] <= nowSec + 1 THEN 0 ELSE used[j]]

\* for (const [jti, exp] of usedJti.entries()) if (exp <= nowSec) usedJti.delete(jti)
cleanupUsedJti(used, nowSec) ==
  [j \in DOMAIN used |-> IF used[j] <= nowSec THEN 0 ELSE used[j]]

\* An expiry test that still lets a token through in the second it expires.
expired_strict(tok, nowSec) == tok.exp < nowSec

\* if (payload.exp <= now) throw new Error("expired")
expired(tok, nowSec) == tok.exp <= nowSec

\* The checks with a skew test that already rejects iat = now + 30.
verifyChecks_tight(tok, opts, nowSec) ==
  IF tok.fmt # "ok" THEN tok.fmt
  ELSE IF tok.roomId = "" THEN "no_roomId"
  ELSE IF tok.peerId = "" THEN "no_peerId"
  ELSE IF tok.jti = 0 THEN "no_jti"
  ELSE IF tok.iat = 0 THEN "no_iat"
  ELSE IF tok.exp = 0 THEN "no_exp"
  ELSE IF expired(tok, nowSec) THEN "expired"
  ELSE IF tok.iat >= nowSec + SkewSec THEN "iat_in_future"
  ELSE IF opts.expectedRoomId # "" /\ tok.roomId # opts.expectedRoomId
    THEN "roomId_mismatch"
  ELSE IF opts.expectedPeerId # "" /\ tok.peerId # opts.expectedPeerId
    THEN "peerId_mismatch"
  ELSE IF opts.expectedSessionId # "" /\ tok.sessionId # opts.expectedSessionId
    THEN "sessionId_mismatch"
  ELSE "pass"

\* verifyToken up to and including the binding checks (lines 58-94): the error
\* thrown, or "pass".
verifyChecks(tok, opts, nowSec) ==
  IF tok.fmt # "ok" THEN tok.fmt
  ELSE IF tok.roomId = "" THEN "no_roomId"
  ELSE IF tok.peerId = "" THEN "no_peerId"
  ELSE IF tok.jti = 0 THEN "no_jti"
  ELSE IF tok.iat = 0 THEN "no_iat"
  ELSE IF tok.exp = 0 THEN "no_exp"
  ELSE IF expired(tok, nowSec) THEN "expired"
  ELSE IF tok.iat > nowSec + SkewSec THEN "iat_in_future"
  ELSE IF opts.expectedRoomId # "" /\ tok.roomId # opts.expectedRoomId
    THEN "roomId_mismatch"
  ELSE IF opts.expectedPeerId # "" /\ tok.peerId # opts.expectedPeerId
    THEN "peerId_mismatch"
  ELSE IF opts.expectedSessionId # "" /\ tok.sessionId # opts.expectedSessionId
    THEN "sessionId_mismatch"
  ELSE "pass"

\* A verifyToken that records the nonce of a consuming call before it checks
\* the token.
verifyToken_eager(tok, opts, nowSec, used) ==
  LET pre == verifyChecks(tok, opts, nowSec)
      cleaned == cleanupUsedJti(used, nowSec)
      noted == IF opts.consumeJti /\ tok.jti \in DOMAIN used /\ used[tok.jti] = 0
                 THEN [used EXCEPT ![tok.jti] = tok.exp] ELSE used
  IN  IF pre # "pass" THEN [res |-> pre, used |-> noted]
      ELSE IF ~opts.consumeJti THEN [res |-> "ok", used |-> cleaned]
      ELSE IF cleaned[tok.jti] # 0 THEN [res |-> "replayed", used |-> cleaned]
      ELSE [res |-> "ok", used |-> [cleaned EXCEPT ![tok.jti] = tok.exp]]

\* verifyToken: the outcome ("ok" or the error thrown) and the usedJti table it
\* leaves. The table is reaped only once the checks above have passed.
verifyToken(tok, opts, nowSec, used) ==
  LET pre == verifyChecks(tok, opts, nowSec)
      cleaned == cleanupUsedJti(used, nowSec)
  IN  IF pre # "pass" THEN [res |-> pre, used |-> used]
      ELSE IF ~opts.consumeJti THEN [res |-> "ok", used |-> cleaned]
      ELSE IF cleaned[tok.jti] # 0 THEN [res |-> "replayed", used |-> cleaned]
      ELSE [res |-> "ok", used |-> [cleaned EXCEPT ![tok.jti] = tok.exp]]

\* ------------------------------------------------------------ signToken
\* A TokenPayload as the caller of signToken builds it; sessionId "" is an
\* absent (undefined) sessionId.
Payload(roomId, peerId, sessionId, jti, iat, exp) ==
  [roomId |-> roomId, peerId |-> peerId, sessionId |-> sessionId, jti |-> jti,
   iat |-> iat, exp |-> exp]

NoPayload == Payload("", "", "", 0, 0, 0)

\* A serialiser that leaves the optional member out.
stringify_short(payload) ==
  [str |-> [k \in {"roomId", "peerId"} |-> payload[k]],
   num |-> [k \in {"jti", "iat", "exp"} |-> payload[k]]]

\* JSON.stringify(payload): the members of the object, the string-valued and
\* the number-valued ones; an undefined member is left out.
stringify(payload) ==
  [str |-> [k \in {"roomId", "peerId"}
                    \cup (IF payload.sessionId = "" THEN {} ELSE {"sessionId"})
              |-> payload[k]],
   num |-> [k \in {"jti", "iat", "exp"} |-> payload[k]]]

\* JSON.parse(payloadJson) as TokenPayload: a member the text lacks reads as
\* undefined.
parse(json) ==
  Payload(json.str["roomId"], json.str["peerId"],
          IF "sessionId" \in DOMAIN json.str THEN json.str["sessionId"] ELSE "",
          json.num["jti"], json.num["iat"], json.num["exp"])

\* signToken(payload): payloadB64 "." sigB64 with the HMAC of payloadB64 under
\* SECRET; verifyToken splits it in two parts, finds the signature equal and
\* parses the decoded payload.
signToken(payload) ==
  LET q == parse(stringify(payload)) IN
  Token("ok", q.roomId, q.peerId, q.sessionId, q.jti, q.iat, q.exp)

\* The payload verifyToken returns for a token it accepts.
payloadOf(tok) ==
  Payload(tok.roomId, tok.peerId, tok.sessionId, tok.jti, tok.iat, tok.exp)

\* Payloads for r1/p1 signed at time t: with and without a sessionId, over
\* every jti, the issue times 0, 1, t and around the allowed skew, and the
\* expiry times around t.
PayloadInputs(t) ==
  { Payload("r1", "p1", sid, j, iat, exp) :
      sid \in {"", "s1"}, j \in TokJtis,
      iat \in {0, 1, t, t + SkewSec, t + SkewSec + 1},
      exp \in {t, t + 1, MaxNow + 1} }

\* ------------------------------------------------ inputs of the token codec
NoToken == Token("ok", "", "", "", 0, 0, 0)
NoOpts == VerifyOpts(FALSE, "", "", "")

\* Well-signed tokens for r1/p1: issued at `t` over every jti and the expiry
\* times around `t`, and with the issue times around the allowed clock skew.
TimedTokens(t) ==
  { Token("ok", "r1", "p1", "", j, t, exp) :
      j \in TokJtis, exp \in {0, t, t + 1, MaxNow + 1} }
  \cup { Token("ok", "r1", "p1", "", 1, iat, MaxNow + 1) :
           iat \in {0, t + SkewSec, t + SkewSec + 1} }

\* Tokens with one defect or one variation each, otherwise valid at every time
\* of the model.
DefectTokens ==
  { Token(f, "r1", "p1", "", 1, 1, MaxNow + 1) :
      f \in {"bad_format", "bad_sig_len", "bad_sig"} }
  \cup { Token("ok", "", "p1", "", 1, 1, MaxNow + 1),
         Token("ok", "r1", "", "", 1, 1, MaxNow + 1),
         Token("ok", "r1", "p2", "s1", 1, 1, MaxNow + 1),
         Token("ok", "r1", "p1", "s2", 1, 1, MaxNow + 1),
         Token("ok", "r1", "p1", "", 0, 1, MaxNow + 1) }

TokenInputs(t) == TimedTokens(t) \cup DefectTokens

\* The tokens presented to the gate in the token-codec runs: issued at t, over
\* every jti, expiring at once, one second later or after the last second.
GateTokens(t) ==
  { Token("ok", "r1", "p1", "", j, t, exp) : j \in TokJtis, exp \in {t, t + 1, MaxNow + 1} }

OptInputs ==
  { VerifyOpts(TRUE, "", "", ""), VerifyOpts(FALSE, "", "", ""),
    VerifyOpts(TRUE, "r1", "p1", "s1") }

Max(a, b) == IF a >= b THEN a ELSE b

\* =========================================================================
\* server.ts: records
\* =========================================================================

\* type Client (cleanupTimer is modelled by `timer`: armed or not)
NoPeer ==
  [sessionId |-> "", peerId |-> "", ws |-> 0, roomId |-> "", send |-> 0,
   recv |-> 0, producers |-> {}, consumers |-> {}, timer |-> FALSE]

\* type Room. peers: peerId -> Client object; producers: the entries
\* producerId -> {peerId, producer}; observed: the producers added to the
\* audioLevelObserver; closed: router.close() was called.
NoRoom ==
  [id |-> "", peers |-> [p \in PeerIds |-> 0], producers |-> {},
   speaking |-> {}, observed |-> {}, closed |-> FALSE]

\* Media engine objects. A producer's listener is the Client object its
\* "transportclose" handler captured (0: no handler registered).
NoTransport == [router |-> 0, open |-> FALSE]
NoProducer == [transport |-> 0, kind |-> "", open |-> FALSE, listener |-> 0]

\* A WebSocket: st is "free" (not yet connected), "open", "closing" (the server
\* called close() on it), "closed" (its close event was handled) or "rejected"
\* (closed by the token gate, no handler registered).
NoConn ==
  [st |-> "free", code |-> 0, tokenRoomId |-> "", tokenPeerId |-> "",
   tokenSessionId |-> ""]

\* A message handed to send(ws, msg).
Msg(type) ==
  [to |-> 0, type |-> type, rq |-> 0, ok |-> TRUE, err |-> "", peerId |-> "",
   sessionId |-> "", roomId |-> "", producerId |-> 0, kind |-> "",
   reason |-> "", speaking |-> FALSE, peers |-> {}, prods |-> {}]

\* A suspended handler: the request, the objects it captured and the await it
\* is suspended at.
Handler(rq, type, ws, peer, roomId, arg, obj, stage) ==
  [rq |-> rq, type |-> type, ws |-> ws, peer |-> peer, roomId |-> roomId,
   arg |-> arg, obj |-> obj, room |-> 0, producer |-> 0, stage |-> stage]

\* The server's state as one value, threaded through the statements of a
\* handler.
World ==
  [conns |-> conns, sessions |-> sessions, peerHeap |-> peerHeap,
   rooms |-> rooms, roomHeap |-> roomHeap, transports |-> transports,
   producers |-> producers, pending |-> pending, resumed |-> resumed,
   out |-> <<>>]

Commit(W) ==
  /\ conns' = W.conns
  /\ sessions' = W.sessions
  /\ peerHeap' = W.peerHeap
  /\ rooms' = W.rooms
  /\ roomHeap' = W.roomHeap
  /\ transports' = W.transports
  /\ producers' = W.producers
  /\ pending' = W.pending
  /\ resumed' = W.resumed
  /\ out' = SelectSeq(W.out, LAMBDA m : m.type \in rec)
  /\ rec' = rec

\* The object id `new` gives the next object of a heap, while the heap has room.
HasFree(heap, none) == \E o \in DOMAIN heap : heap[o] = none

Fresh(heap, none) ==
  CHOOSE o \in DOMAIN heap : heap[o] = none /\ \A q \in 1..(o - 1) : heap[q] # none

MinOf(S) == CHOOSE x \in S : \A y \in S : x <= y

\* The fixed order in which a Map keyed by peerId is walked.
PeerIdSeq == <<"p1", "p2">>

SessionIdSeq == <<"s1", "s2", "s3">>

\* =========================================================================
\* server.ts: helpers
\* =========================================================================

\* const send = (ws, msg) => ws.send(JSON.stringify(msg))
send(W, ws, msg) == [W EXCEPT !.out = Append(@, [msg EXCEPT !.to = ws])]

RECURSIVE broadcastFrom(_, _, _, _, _)
broadcastFrom(W, r, msg, excludePeerId, i) ==
  IF i > Len(PeerIdSeq) THEN W
  ELSE LET o == W.roomHeap[r].peers[PeerIdSeq[i]] IN
       IF o = 0 \/ (excludePeerId # "" /\ W.peerHeap[o].peerId = excludePeerId)
         THEN broadcastFrom(W, r, msg, excludePeerId, i + 1)
         ELSE broadcastFrom(send(W, W.peerHeap[o].ws, msg), r, msg, excludePeerId, i + 1)

\* broadcastRoom(room, msg, excludePeerId?)
broadcastRoom(W, r, msg, excludePeerId) == broadcastFrom(W, r, msg, excludePeerId, 1)

\* peerJoined sent to every entry of the peer map, the joiner's included.
broadcastPeerJoined_all(W, r, peerId) ==
  broadcastRoom(W, r, [Msg("peerJoined") EXCEPT !.peerId = peerId], "")

broadcastPeerJoined(W, r, peerId) ==
  broadcastRoom(W, r, [Msg("peerJoined") EXCEPT !.peerId = peerId], peerId)

broadcastPeerLeft(W, r, peerId) ==
  broadcastRoom(W, r, [Msg("peerLeft") EXCEPT !.peerId = peerId], peerId)

\* roomPeerList(room): the peerId field of every member
roomPeerList(W, r) ==
  { W.peerHeap[W.roomHeap[r].peers[k]].peerId :
      k \in { q \in PeerIds : W.roomHeap[r].peers[q] # 0 } }

\* roomProducerList(room)
roomProducerList(W, r) ==
  { [producerId |-> e.producerId, peerId |-> e.peerId, kind |-> e.kind] :
      e \in W.roomHeap[r].producers }

\* ---------------------------------------------------------- media engine
\* producer.close(): the producer is closed and leaves every observer. The
\* application's "transportclose" handler does not run.
producerClose(W, pid) ==
  IF ~W.producers[pid].open THEN W
  ELSE [W EXCEPT
         !.producers[pid].open = FALSE,
         !.roomHeap = [r \in RoomOids |-> [@[r] EXCEPT !.observed = @ \ {pid}]]]

\* "transportclose" on a producer: the handler registered by the produce
\* request deletes it from the captured Client's producers and closes it.
producerTransportClosed(W, pid) ==
  LET l == W.producers[pid].listener
      W1 == IF l = 0 THEN W
            ELSE [W EXCEPT !.peerHeap[l].producers = @ \ {pid}]
  IN  producerClose(W1, pid)

RECURSIVE closeProducersOf(_, _)
closeProducersOf(W, S) ==
  IF S = {} THEN W
  ELSE closeProducersOf(producerTransportClosed(W, MinOf(S)), S \ {MinOf(S)})

\* transport.close(): closes the transport and, with "transportclose", each of
\* its producers.
transportClose(W, t) ==
  IF t = 0 \/ ~W.transports[t].open THEN W
  ELSE closeProducersOf(
         [W EXCEPT !.transports[t].open = FALSE],
         { pid \in DOMAIN W.producers :
             W.producers[pid].open /\ W.producers[pid].transport = t })

RECURSIVE closeTransportsOf(_, _)
closeTransportsOf(W, S) ==
  IF S = {} THEN W
  ELSE closeTransportsOf(transportClose(W, MinOf(S)), S \ {MinOf(S)})

\* room.audioLevelObserver.close(); room.router.close()
routerClose(W, r) ==
  closeTransportsOf(
    [W EXCEPT !.roomHeap[r].observed = {}, !.roomHeap[r].closed = TRUE],
    { t \in DOMAIN W.transports :
        W.transports[t].open /\ W.transports[t].router = r })

RECURSIVE plainCloseAll(_, _)
\* peer.producers.forEach((p) => p.close())
plainCloseAll(W, S) ==
  IF S = {} THEN W ELSE plainCloseAll(producerClose(W, MinOf(S)), S \ {MinOf(S)})

\* ------------------------------------------------- resetPeerMedia / destroy
\* The entries of room r's producer index whose peerId is `peerId`.
EntriesOf(W, r, peerId) == { e \in W.roomHeap[r].producers : e.peerId = peerId }

speakingFalse(pid, peerId) ==
  [Msg("producerSpeaking") EXCEPT !.producerId = pid, !.peerId = peerId]

producerClosedMsg(e) ==
  [Msg("producerClosed") EXCEPT !.producerId = e.producerId, !.peerId = e.peerId,
                                !.kind = e.kind, !.reason = "left"]

\* One turn of the loop over room.producers shared by resetPeerMedia and
\* destroyPeer: delete the entry, clear its speaking flag (broadcasting
\* producerSpeaking false if it was set).
dropEntry(W, r, e) ==
  LET W1 == [W EXCEPT !.roomHeap[r].producers = @ \ {e}] IN
  IF e.producerId \in W1.roomHeap[r].speaking
    THEN broadcastRoom([W1 EXCEPT !.roomHeap[r].speaking = @ \ {e.producerId}],
                       r, speakingFalse(e.producerId, e.peerId), "")
    ELSE W1

EntryWithId(S, pid) == CHOOSE e \in S : e.producerId = pid

RECURSIVE resetEntries(_, _, _)
\* resetPeerMedia, step 1: no producerClosed is broadcast; the producer is closed.
resetEntries(W, r, S) ==
  IF S = {} THEN W
  ELSE LET e == EntryWithId(S, MinOf({ x.producerId : x \in S })) IN
       resetEntries(producerClose(dropEntry(W, r, e), e.producerId), r, S \ {e})

\* Step 2 of resetPeerMedia and the "close mediasoup resources" part of
\* destroyPeer: close and forget the peer's producers, consumers and transports.
releaseMedia(W, p) ==
  LET W1 == plainCloseAll(W, W.peerHeap[p].producers)
      W2 == transportClose(W1, W1.peerHeap[p].send)
      W3 == transportClose(W2, W2.peerHeap[p].recv)
  IN  [W3 EXCEPT !.peerHeap[p].producers = {}, !.peerHeap[p].consumers = {},
                 !.peerHeap[p].send = 0, !.peerHeap[p].recv = 0]

\* resetPeerMedia leaving the index alone while the Client still holds
\* producers.
resetPeerMedia_lazy(W, p) ==
  LET peer == W.peerHeap[p]
      r == IF peer.roomId = "" THEN 0 ELSE W.rooms[peer.roomId]
      W1 == IF r = 0 \/ peer.producers # {} THEN W
            ELSE resetEntries(W, r, EntriesOf(W, r, peer.peerId))
  IN  releaseMedia(W1, p)

\* A resetPeerMedia that announces the producers it drops.
resetPeerMedia_loud(W, p) ==
  LET peer == W.peerHeap[p]
      r == IF peer.roomId = "" THEN 0 ELSE W.rooms[peer.roomId]
      E == IF r = 0 THEN {} ELSE EntriesOf(W, r, peer.peerId)
      W1 == IF E = {} THEN W
            ELSE broadcastRoom(resetEntries(W, r, E), r,
                               producerClosedMsg(EntryWithId(E, MinOf({ x.producerId : x \in E }))),
                               "")
  IN  releaseMedia(W1, p)

resetPeerMedia(W, p) ==
  LET peer == W.peerHeap[p]
      r == IF peer.roomId = "" THEN 0 ELSE W.rooms[peer.roomId]
      W1 == IF r = 0 THEN W ELSE resetEntries(W, r, EntriesOf(W, r, peer.peerId))
  IN  releaseMedia(W1, p)

RECURSIVE destroyEntries(_, _, _)
\* destroyPeer's loop: producerClosed is broadcast for each entry.
destroyEntries(W, r, S) ==
  IF S = {} THEN W
  ELSE LET e == EntryWithId(S, MinOf({ x.producerId : x \in S })) IN
       destroyEntries(broadcastRoom(dropEntry(W, r, e), r, producerClosedMsg(e), ""),
                      r, S \ {e})

\* destroyPeer lines 186-212: the loop over room.producers, then the peer
\* leaves the peer map and peerLeft is broadcast.
destroyNotify(W, p, r) ==
  LET peer == W.peerHeap[p]
      W1 == destroyEntries(W, r, EntriesOf(W, r, peer.peerId))
      W2 == [W1 EXCEPT !.roomHeap[r].peers[peer.peerId] = 0]
  IN  broadcastPeerLeft(W2, r, peer.peerId)

\* destroyPeer after the two early returns: the peer has a roomId and the room
\* is published.
destroyInRoom(W, p, r) ==
  LET peer == W.peerHeap[p]
      W3 == destroyNotify(W, p, r)
      W4 == releaseMedia(W3, p)
      W5 == [W4 EXCEPT !.peerHeap[p].roomId = "",
                       !.sessions[peer.sessionId] = 0]
  IN  IF \A k \in PeerIds : W5.roomHeap[r].peers[k] = 0
        THEN [routerClose(W5, r) EXCEPT !.rooms[W5.roomHeap[r].id] = 0]
        ELSE W5

destroyPeer(W, p) ==
  LET peer == W.peerHeap[p]
      r == IF peer.roomId = "" THEN 0 ELSE W.rooms[peer.roomId]
  IN  IF r = 0 THEN [W EXCEPT !.sessions[peer.sessionId] = 0]
      ELSE destroyInRoom(W, p, r)

\* scheduleGraceCleanup: a single timer per peer (re-arming replaces it).
scheduleGraceCleanup(W, p) ==
  [W EXCEPT !.peerHeap[p].timer = TRUE, !.resumed = @ \ {p}]

\* =========================================================================
\* server.ts: the token gate (wss.on("connection"))
\* =========================================================================

\* String(x).trim(): " " stands for a string of white space only.
Trim(str) == IF str = " " THEN "" ELSE str

UsedJtis == { j \in DOMAIN usedJti : usedJti[j] # 0 }

\* The issuer numbers its nonces: a new token carries the next unused one.
FreshJti == Cardinality(UsedJtis) + 1

\* Names are interchangeable (the server only compares them for equality), so
\* the clients of a run take them in order: a name is used once the names
\* before it are in use.
InOrder(name, order, used) ==
  \A i \in 1..Len(order) : order[i] = name => \A j \in 1..(i - 1) : order[j] \in used

PeerIdsSeen == { conns[c].tokenPeerId : c \in DOMAIN conns }

SessionIdsSeen == { peerHeap[p].sessionId : p \in PeerOids }

\* The nonce of the next token, while the issuer has one left.
Issuable == IF FreshJti \in DOMAIN usedJti THEN {FreshJti} ELSE {}

\* The tokens a client may present: valid ones for every binding, and one each
\* with a bad signature, an exp that has passed, a nonce already used and a
\* roomId of white space.
ConnectTokens(bindings) ==
  { Token("ok", b[1], b[2], b[3], j, now, MaxNow + 1) :
      b \in { x \in bindings : InOrder(x[2], PeerIdSeq, PeerIdsSeen) }, j \in Issuable }
  \cup { Token("bad_sig", "r1", "p1", "", j, now, MaxNow + 1) : j \in Issuable }
  \cup { Token("ok", "r1", "p1", "", j, now, now) : j \in Issuable }
  \cup { Token("ok", " ", "p1", "", j, now, MaxNow + 1) : j \in Issuable }
  \cup { Token("ok", "r1", "p1", "", j, now, MaxNow + 1) : j \in UsedJtis }

\* Lines 319-358: why the connection is refused ("" if it is admitted), and the
\* usedJti table verifyToken leaves.
gate(present, tok) ==
  LET v == verifyToken(tok, VerifyOpts(TRUE, "", "", ""), now, usedJti) IN
  IF ~present THEN [reason |-> "missing token", used |-> usedJti]
  ELSE IF v.res # "ok" THEN [reason |-> v.res, used |-> v.used]
  ELSE IF Trim(tok.roomId) = "" THEN [reason |-> "no_roomId", used |-> v.used]
  ELSE IF Trim(tok.peerId) = "" THEN [reason |-> "no_peerId", used |-> v.used]
  ELSE [reason |-> "", used |-> v.used]

\* A refused connection: ws.close(1008, ...) and return, before any handler is
\* registered.
refuse(W, c, reason) ==
  send([W EXCEPT !.conns[c] = [NoConn EXCEPT !.st = "rejected", !.code = 1008]],
       c, [Msg("close") EXCEPT !.reason = reason])

\* An admitted connection: the token binding is attached to the socket, the
\* boot welcome is sent and the message / close handlers are registered.
admit(W, c, tok) ==
  send([W EXCEPT !.conns[c] =
          [NoConn EXCEPT !.st = "open", !.tokenRoomId = Trim(tok.roomId),
                         !.tokenPeerId = Trim(tok.peerId),
                         !.tokenSessionId = Trim(tok.sessionId)]],
       c,
       [Msg("welcome") EXCEPT !.peerId = Trim(tok.peerId),
                              !.sessionId = Trim(tok.sessionId)])

\* A gate that admits whatever is presented.
onConnection_open(W, c, present, tok) == admit(W, c, tok)

onConnection(W, c, present, tok) ==
  IF gate(present, tok).reason # "" THEN refuse(W, c, gate(present, tok).reason)
  ELSE admit(W, c, tok)

Connect(bindings) ==
  \E c \in DOMAIN conns, present \in BOOLEAN, tok \in ConnectTokens(bindings) \cup {NoToken} :
    /\ conns[c].st = "free"
    /\ \A q \in 1..(c - 1) : conns[q].st # "free"
    /\ present <=> tok # NoToken
    /\ usedJti' = gate(present, tok).used
    /\ Commit(onConnection(World, c, present, tok))
    /\ UNCHANGED <<now, tokCall, acceptedExp>>

\* Whether the message handler of connection c is registered and the socket
\* still delivers messages.
Listening(c) == conns[c].st = "open"

\* =========================================================================
\* server.ts: ws.on("message") -- join and resumeSession
\* =========================================================================
okMsg(rq) == [Msg("response") EXCEPT !.rq = rq]

\* fail(e)
failMsg(rq, err) == [Msg("response") EXCEPT !.rq = rq, !.ok = FALSE, !.err = err]

\* requireRoomIdMatch: the error thrown, or "".
requireRoomIdMatch(W, c, roomIdFromMsg) ==
  IF Trim(W.conns[c].tokenRoomId) = "" THEN "not_authed"
  ELSE IF Trim(roomIdFromMsg) = "" THEN "roomId required"
  ELSE IF Trim(roomIdFromMsg) # Trim(W.conns[c].tokenRoomId) THEN "roomId mismatch"
  ELSE ""

\* The identity taken from the payload whatever the token binds.
requireBoundIdentity_loose(W, c, msgSessionId, gen) ==
  LET authedPeerId == Trim(W.conns[c].tokenPeerId)
      sid == Trim(msgSessionId)
  IN  IF authedPeerId = "" THEN [err |-> "not_authed", peerId |-> "", sessionId |-> ""]
      ELSE [err |-> "", peerId |-> authedPeerId,
            sessionId |-> IF sid # "" THEN sid ELSE gen]

\* requireBoundIdentity: the error thrown ("" if none) and the identity
\* returned; `gen` is the id "s_" + rid() would produce.
requireBoundIdentity(W, c, msgSessionId, gen) ==
  LET authedPeerId == Trim(W.conns[c].tokenPeerId)
      authedSessionId == Trim(W.conns[c].tokenSessionId)
      sid == Trim(msgSessionId)
  IN  IF authedPeerId = "" THEN [err |-> "not_authed", peerId |-> "", sessionId |-> ""]
      ELSE IF authedSessionId # "" /\ sid = ""
        THEN [err |-> "sessionId required (token-bound)", peerId |-> "", sessionId |-> ""]
      ELSE IF authedSessionId # "" /\ sid # authedSessionId
        THEN [err |-> "sessionId mismatch (token-bound)", peerId |-> "", sessionId |-> ""]
      ELSE IF authedSessionId # ""
        THEN [err |-> "", peerId |-> authedPeerId, sessionId |-> authedSessionId]
      ELSE [err |-> "", peerId |-> authedPeerId,
            sessionId |-> IF sid # "" THEN sid ELSE gen]

\* peer.ws.close() on a superseded socket: its close event follows later.
wsClose(W, c) ==
  IF c # 0 /\ W.conns[c].st = "open" THEN [W EXCEPT !.conns[c].st = "closing"] ELSE W

\* The else-branch without its first statement: the grace timer stays armed.
adopt_keepTimer(W, p, c) ==
  LET W2 == resetPeerMedia(W, p)
      W3 == IF W2.peerHeap[p].ws # c THEN wsClose(W2, W2.peerHeap[p].ws) ELSE W2
  IN  [W3 EXCEPT !.peerHeap[p].ws = c]

\* The else-branch with the last assignment left out: the prior socket is
\* closed but stays the Client's handle.
adopt_keepHandle(W, p, c) ==
  LET peer == W.peerHeap[p]
      r == IF peer.roomId = "" THEN 0 ELSE W.rooms[peer.roomId]
      cancels == peer.timer /\ r # 0 /\ W.roomHeap[r].peers[peer.peerId] = p
      W1 == [W EXCEPT !.peerHeap[p].timer = FALSE,
                      !.resumed = IF cancels THEN @ \cup {p} ELSE @]
      W2 == resetPeerMedia(W1, p)
  IN  IF W2.peerHeap[p].ws # c THEN wsClose(W2, W2.peerHeap[p].ws) ELSE W2

\* The else-branch shared by join and resumeSession (lines 437-448 / 504-515):
\* disarm the grace timer, reset the media, supersede the old socket.
adopt(W, p, c) ==
  LET peer == W.peerHeap[p]
      r == IF peer.roomId = "" THEN 0 ELSE W.rooms[peer.roomId]
      cancels == peer.timer /\ r # 0 /\ W.roomHeap[r].peers[peer.peerId] = p
      W1 == [W EXCEPT !.peerHeap[p].timer = FALSE,
                      !.resumed = IF cancels THEN @ \cup {p} ELSE @]
      W2 == resetPeerMedia(W1, p)
      W3 == IF W2.peerHeap[p].ws # c THEN wsClose(W2, W2.peerHeap[p].ws) ELSE W2
  IN  [W3 EXCEPT !.peerHeap[p].ws = c]

\* The Client adopted whatever peerId the token binds.
lookupOrCreate_unchecked(W, c, sessionId, peerId) ==
  LET p == W.sessions[sessionId]
      n == Fresh(W.peerHeap, NoPeer)
  IN  IF p = 0
        THEN [W |-> [W EXCEPT !.peerHeap[n] = [NoPeer EXCEPT !.sessionId = sessionId,
                                                             !.peerId = peerId,
                                                             !.ws = c],
                              !.sessions[sessionId] = n],
              p |-> n, err |-> ""]
      ELSE [W |-> adopt(W, p, c), p |-> p, err |-> ""]

\* The Client adopted before its peerId is compared with the token's.
lookupOrCreate_adoptFirst(W, c, sessionId, peerId) ==
  LET p == W.sessions[sessionId]
      n == Fresh(W.peerHeap, NoPeer)
  IN  IF p = 0
        THEN [W |-> [W EXCEPT !.peerHeap[n] = [NoPeer EXCEPT !.sessionId = sessionId,
                                                             !.peerId = peerId,
                                                             !.ws = c],
                              !.sessions[sessionId] = n],
              p |-> n, err |-> ""]
      ELSE IF W.peerHeap[p].peerId # peerId
        THEN [W |-> adopt(W, p, c), p |-> p, err |-> "peerId mismatch (session bound)"]
      ELSE [W |-> adopt(W, p, c), p |-> p, err |-> ""]

\* Lines 423-449 / 490-516: find or create the Client of sessionId. Returns the
\* world, the Client and the error thrown ("" if none).
lookupOrCreate(W, c, sessionId, peerId) ==
  LET p == W.sessions[sessionId]
      n == Fresh(W.peerHeap, NoPeer)
  IN  IF p = 0
        THEN [W |-> [W EXCEPT !.peerHeap[n] = [NoPeer EXCEPT !.sessionId = sessionId,
                                                             !.peerId = peerId,
                                                             !.ws = c],
                              !.sessions[sessionId] = n],
              p |-> n, err |-> ""]
      ELSE IF W.peerHeap[p].peerId # peerId
        THEN [W |-> W, p |-> p, err |-> "peerId mismatch (session bound)"]
      ELSE [W |-> adopt(W, p, c), p |-> p, err |-> ""]

\* The reply data shared by join and resumeSession; r = 0 when the room lookup
\* found nothing (resumeSession only).
joinedMsg(W, type, rq, p, r) ==
  [Msg(type) EXCEPT !.rq = rq, !.sessionId = W.peerHeap[p].sessionId,
                    !.peerId = W.peerHeap[p].peerId,
                    !.roomId = IF type = "welcome" THEN ""
                               ELSE IF r = 0 THEN W.peerHeap[p].roomId
                               ELSE W.roomHeap[r].id,
                    !.peers = IF r = 0 THEN {} ELSE roomPeerList(W, r),
                    !.prods = IF r = 0 THEN {} ELSE roomProducerList(W, r)]

\* join, lines 522-542: after getRoom has returned room r.
joinFinish(W, h, r) ==
  LET p == h.peer
      W1 == [W EXCEPT !.roomHeap[r].peers[W.peerHeap[p].peerId] = p]
      W2 == send(W1, h.ws, joinedMsg(W1, "response", h.rq, p, r))
      W3 == send(W2, h.ws, joinedMsg(W2, "welcome", 0, p, r))
  IN  broadcastPeerJoined(W3, r, W3.peerHeap[p].peerId)

\* resumeSession, lines 459-478: the reply, after a fresh lookup of the room.
resumeReply(W, h) ==
  LET p == h.peer
      r == IF W.peerHeap[p].roomId = "" THEN 0 ELSE W.rooms[W.peerHeap[p].roomId]
      W1 == send(W, h.ws, joinedMsg(W, "response", h.rq, p, r))
  IN  send(W1, h.ws, joinedMsg(W1, "welcome", 0, p, r))

\* resumeSession, lines 455-478: after getRoom has returned room r.
resumeFinish(W, h, r) ==
  LET p == h.peer
      W1 == [W EXCEPT !.roomHeap[r].peers[W.peerHeap[p].peerId] = p]
  IN  resumeReply(broadcastPeerJoined(W1, r, W1.peerHeap[p].peerId), h)

finish(W, h, r) ==
  IF h.type = "join" THEN joinFinish(W, h, r) ELSE resumeFinish(W, h, r)

\* await getRoom(roomId) called by handler h: a published room is returned
\* with no other handler running in between; otherwise the handler is suspended
\* in worker.createRouter and then router.createAudioLevelObserver. getRoom
\* reads and writes nothing between these two awaits, so they are one
\* suspension here.
callGetRoom(W, h) ==
  IF W.rooms[h.roomId] # 0 THEN finish(W, h, W.rooms[h.roomId])
  ELSE [W EXCEPT !.pending = @ \cup {[h EXCEPT !.stage = "getRoom"]}]

\* The body of the join / resumeSession handler up to its first await.
onJoin(W, c, rq, type, roomIdMsg, sessionIdMsg, gen) ==
  LET rerr == requireRoomIdMatch(W, c, roomIdMsg)
      roomId == Trim(roomIdMsg)
      bound == requireBoundIdentity(W, c, sessionIdMsg, gen)
      found == lookupOrCreate(W, c, bound.sessionId, bound.peerId)
      W1 == found.W
      p == found.p
      h == Handler(rq, type, c, p, roomId, "", 0, "")
  IN  IF rerr # "" THEN send(W, c, failMsg(rq, rerr))
      ELSE IF bound.err # "" THEN send(W, c, failMsg(rq, bound.err))
      ELSE IF found.err # "" THEN send(W1, c, failMsg(rq, found.err))
      ELSE IF W1.peerHeap[p].roomId # "" /\ W1.peerHeap[p].roomId # roomId
        THEN send(W1, c, failMsg(rq, "roomId mismatch"))
      ELSE IF type = "join" \/ W1.peerHeap[p].roomId = ""
        THEN callGetRoom([W1 EXCEPT !.peerHeap[p].roomId = roomId], h)
      ELSE resumeReply(W1, h)

\* The Client a join / resumeSession request acts on (0: none).
JoinTarget(W, c, roomIdMsg, sessionIdMsg, gen) ==
  LET bound == requireBoundIdentity(W, c, sessionIdMsg, gen) IN
  IF requireRoomIdMatch(W, c, roomIdMsg) # "" \/ bound.err # "" THEN 0
  ELSE IF W.sessions[bound.sessionId] # 0 THEN W.sessions[bound.sessionId]
  ELSE IF HasFree(W.peerHeap, NoPeer) THEN Fresh(W.peerHeap, NoPeer)
  ELSE MaxPeers + 1

\* The requestId of the next request on connection c: unused by the requests of
\* c that are still being handled.
NextRq(c) ==
  CHOOSE n \in 1..(MaxPending + 1) :
    /\ \A h \in pending : h.ws = c => h.rq # n
    /\ \A m \in 1..(n - 1) : \E h \in pending : h.ws = c /\ h.rq = m

\* The objects of a heap that exist, and those that the suspended handlers of
\* the given types may still create.
Allocated(heap, none, types) ==
  Cardinality({ o \in DOMAIN heap : heap[o] # none })
    + Cardinality({ h \in pending : h.type \in types })

\* The bounds of a run: a request that would create a Client needs a free
\* Client object, one that would create a Room a free Room object, and one that
\* may be suspended a free place among the suspended handlers.
CanHandle(p, roomId) ==
  /\ p # 0 => p \in PeerOids
  /\ Cardinality(pending) < MaxPending
  /\ (roomId \in RoomIds /\ rooms[roomId] = 0) =>
       Allocated(roomHeap, NoRoom, {"join", "resumeSession"}) < MaxRooms

JoinRequest(type, roomInputs, sessionInputs) ==
  \E c \in DOMAIN conns, roomIdMsg \in roomInputs, sessionIdMsg \in sessionInputs,
     gen \in GenSessionIds :
    /\ Listening(c)
    /\ sessions[gen] = 0
    /\ InOrder(sessionIdMsg, SessionIdSeq, SessionIdsSeen)
    /\ CanHandle(JoinTarget(World, c, roomIdMsg, sessionIdMsg, gen), Trim(roomIdMsg))
    /\ Commit(onJoin(World, c, NextRq(c), type, roomIdMsg, sessionIdMsg, gen))
    /\ UNCHANGED tokVars

Join(roomInputs, sessionInputs) == JoinRequest("join", roomInputs, sessionInputs)

ResumeSession(roomInputs, sessionInputs) ==
  JoinRequest("resumeSession", roomInputs, sessionInputs)

\* ------------------------------------------------------------- getRoom
\* getRoom lines 112-170: the Room is built and published (rooms.set replaces
\* whatever is published under the id), and the caller resumes.
publishRoom(W, h) ==
  LET r == Fresh(W.roomHeap, NoRoom)
      W1 == [W EXCEPT !.roomHeap[r] = [NoRoom EXCEPT !.id = h.roomId],
                      !.rooms[h.roomId] = r,
                      !.pending = @ \ {h}]
  IN  finish(W1, h, r)

RoomCreated ==
  \E h \in pending :
    /\ h.stage = "getRoom"
    /\ Commit(publishRoom(World, h))
    /\ UNCHANGED tokVars

\* The rejection swallowed: the handler ends without a reply.
engineThrow_silent(W, h) ==
  [W EXCEPT !.pending = @ \ {h}]

\* An awaited media-engine call rejects: the handler's catch replies fail(e).
engineThrow(W, h) ==
  send([W EXCEPT !.pending = @ \ {h}], h.ws, failMsg(h.rq, "engine error"))

EngineThrow ==
  \E h \in pending :
    /\ Commit(engineThrow(World, h))
    /\ UNCHANGED tokVars

\* =========================================================================
\* server.ts: ws.on("message") -- createTransport, produce
\* =========================================================================

\* The lookup falling back, for a sessionId that resolves to nothing, on the
\* first Client bound to the requesting connection.
requirePeer_trusting(W, c, sessionIdMsg) ==
  LET sid == Trim(sessionIdMsg)
      S == { q \in PeerOids : W.peerHeap[q].ws = c /\ W.peerHeap[q].sessionId # "" }
      p == IF sid # "" /\ W.sessions[sid] # 0 THEN W.sessions[sid]
           ELSE IF S # {} THEN MinOf(S)
           ELSE 0
  IN  IF p = 0 THEN [p |-> 0, err |-> "invalid sessionId (peer not found)"]
      ELSE IF W.peerHeap[p].roomId # ""
        THEN [p |-> p, err |-> requireRoomIdMatch(W, c, W.peerHeap[p].roomId)]
      ELSE [p |-> p, err |-> ""]

\* Lines 570-575: the Client of payload.sessionId and the error thrown before
\* the request type is looked at ("" if none).
requirePeer(W, c, sessionIdMsg) ==
  LET sid == Trim(sessionIdMsg)
      p == IF sid = "" THEN 0 ELSE W.sessions[sid]
  IN  IF p = 0 THEN [p |-> 0, err |-> "invalid sessionId (peer not found)"]
      ELSE IF W.peerHeap[p].roomId # ""
        THEN [p |-> p, err |-> requireRoomIdMatch(W, c, W.peerHeap[p].roomId)]
      ELSE [p |-> p, err |-> ""]

\* createTransport up to its await: the error thrown, or "".
createTransportChecks(W, p, direction) ==
  IF direction \notin {"send", "recv"} THEN "invalid direction"
  ELSE IF W.peerHeap[p].roomId = "" THEN "room not joined"
  ELSE IF W.rooms[W.peerHeap[p].roomId] = 0 THEN "room not found"
  ELSE ""

onCreateTransport(W, c, rq, sessionIdMsg, direction) ==
  LET found == requirePeer(W, c, sessionIdMsg)
      p == found.p
      err == IF found.err # "" THEN found.err ELSE createTransportChecks(W, p, direction)
  IN  IF err # "" THEN send(W, c, failMsg(rq, err))
      ELSE [W EXCEPT !.pending = @ \cup
              {Handler(rq, "createTransport", c, p, "", direction,
                       W.rooms[W.peerHeap[p].roomId], "createWebRtcTransport")}]

CreateTransport(sessionInputs, directions) ==
  \E c \in DOMAIN conns, sessionIdMsg \in sessionInputs, direction \in directions :
    /\ Listening(c)
    /\ Cardinality(pending) < MaxPending
    /\ Allocated(transports, NoTransport, {"createTransport"}) < Len(transports)
    /\ Commit(onCreateTransport(World, c, NextRq(c), sessionIdMsg, direction))
    /\ UNCHANGED tokVars

\* Lines 598-615: router.createWebRtcTransport resolved with a new transport,
\* which is stored in the slot of the direction.
transportCreated(W, h) ==
  LET t == Fresh(W.transports, NoTransport)
      W1 == [W EXCEPT !.transports[t] = [router |-> h.obj, open |-> TRUE],
                      !.pending = @ \ {h}]
      W2 == IF h.arg = "send" THEN [W1 EXCEPT !.peerHeap[h.peer].send = t]
            ELSE [W1 EXCEPT !.peerHeap[h.peer].recv = t]
  IN  send(W2, h.ws, [okMsg(h.rq) EXCEPT !.producerId = t])

TransportCreated ==
  \E h \in pending :
    /\ h.stage = "createWebRtcTransport"
    /\ ~roomHeap[h.obj].closed
    /\ Commit(transportCreated(World, h))
    /\ UNCHANGED tokVars

\* connectTransport up to its await (lines 622-636): the error thrown, or "".
connectTransportChecks(W, p, direction, hasDtls) ==
  IF ~hasDtls THEN "missing dtlsParameters"
  ELSE IF direction = "send" /\ W.peerHeap[p].send # 0 THEN ""
  ELSE IF direction = "recv" /\ W.peerHeap[p].recv # 0 THEN ""
  ELSE "transport not created"

onConnectTransport(W, c, rq, sessionIdMsg, direction, hasDtls) ==
  LET found == requirePeer(W, c, sessionIdMsg)
      p == found.p
      err == IF found.err # "" THEN found.err
             ELSE connectTransportChecks(W, p, direction, hasDtls)
      t == IF direction = "send" THEN W.peerHeap[p].send ELSE W.peerHeap[p].recv
  IN  IF err # "" THEN send(W, c, failMsg(rq, err))
      ELSE [W EXCEPT !.pending = @ \cup
              {Handler(rq, "connectTransport", c, p, "", direction, t, "connect")}]

ConnectTransport(sessionInputs, directions, dtlsInputs) ==
  \E c \in DOMAIN conns, sessionIdMsg \in sessionInputs, direction \in directions,
     hasDtls \in dtlsInputs :
    /\ Listening(c)
    /\ Cardinality(pending) < MaxPending
    /\ Commit(onConnectTransport(World, c, NextRq(c), sessionIdMsg, direction, hasDtls))
    /\ UNCHANGED tokVars

\* Line 637: t.connect resolved.
transportConnected(W, h) ==
  send([W EXCEPT !.pending = @ \ {h}], h.ws, okMsg(h.rq))

TransportConnected ==
  \E h \in pending :
    /\ h.stage = "connect"
    /\ transports[h.obj].open
    /\ Commit(transportConnected(World, h))
    /\ UNCHANGED tokVars

\* A request of a type no branch handles (lines 570-575, 799-800).
onUnknown(W, c, rq, sessionIdMsg) ==
  LET found == requirePeer(W, c, sessionIdMsg) IN
  send(W, c, failMsg(rq, IF found.err # "" THEN found.err ELSE "unknown type"))

Unknown(sessionInputs) ==
  \E c \in DOMAIN conns, sessionIdMsg \in sessionInputs :
    /\ Listening(c)
    /\ Commit(onUnknown(World, c, NextRq(c), sessionIdMsg))
    /\ UNCHANGED tokVars

\* produce up to its await: the error thrown, or "".
produceChecks(W, p, kind, hasRtp) ==
  IF kind \notin {"audio", "video"} THEN "invalid kind"
  ELSE IF W.peerHeap[p].send = 0 THEN "send transport not ready"
  ELSE IF ~hasRtp THEN "missing rtpParameters"
  ELSE ""

onProduce(W, c, rq, sessionIdMsg, kind, hasRtp) ==
  LET found == requirePeer(W, c, sessionIdMsg)
      p == found.p
      err == IF found.err # "" THEN found.err ELSE produceChecks(W, p, kind, hasRtp)
  IN  IF err # "" THEN send(W, c, failMsg(rq, err))
      ELSE [W EXCEPT !.pending = @ \cup
              {Handler(rq, "produce", c, p, "", kind, W.peerHeap[p].send, "produce")}]

Produce(sessionInputs, kinds, rtpInputs) ==
  \E c \in DOMAIN conns, sessionIdMsg \in sessionInputs, kind \in kinds, hasRtp \in rtpInputs :
    /\ Listening(c)
    /\ Cardinality(pending) < MaxPending
    /\ Allocated(producers, NoProducer, {"produce"}) < Len(producers)
    /\ Commit(onProduce(World, c, NextRq(c), sessionIdMsg, kind, hasRtp))
    /\ UNCHANGED tokVars

\* Lines 661-683: transport.produce resolved with a new producer. It enters the
\* Client's producers, and the producer index of the room published under the
\* Client's roomId, if there is one.
produced(W, h) ==
  LET pid == Fresh(W.producers, NoProducer)
      peer == W.peerHeap[h.peer]
      r == IF peer.roomId = "" THEN 0 ELSE W.rooms[peer.roomId]
      W1 == [W EXCEPT !.producers[pid] =
                        [transport |-> h.obj, kind |-> h.arg, open |-> TRUE,
                         listener |-> h.peer],
                      !.peerHeap[h.peer].producers = @ \cup {pid},
                      !.pending = @ \ {h}]
      W2 == IF r = 0 THEN W1
            ELSE [W1 EXCEPT !.roomHeap[r].producers = @ \cup
                    {[producerId |-> pid, peerId |-> peer.peerId, kind |-> h.arg]}]
  IN  send(W2, h.ws, [okMsg(h.rq) EXCEPT !.producerId = pid])

Produced ==
  \E h \in pending :
    /\ h.stage = "produce"
    /\ transports[h.obj].open
    /\ Commit(produced(World, h))
    /\ UNCHANGED tokVars

\* The DTLS state of a transport becomes "closed": its dtlsstatechange handler
\* closes it.
DtlsClosed ==
  \E t \in DOMAIN transports :
    /\ transports[t].open
    /\ Commit(transportClose(World, t))
    /\ UNCHANGED tokVars

\* =========================================================================
\* server.ts: ws.on("message") -- listProducers
\* =========================================================================

\* listProducers / getRoomProducers, lines 548-565: the room is the payload's
\* roomId if it has one, else the roomId of payload.sessionId's Client; either
\* must match the token's room.
onListProducers(W, c, rq, sessionIdMsg, roomIdMsg) ==
  LET sid == Trim(sessionIdMsg)
      p == IF sid = "" THEN 0 ELSE W.sessions[sid]
      named == IF roomIdMsg # "" THEN roomIdMsg
               ELSE IF p # 0 THEN W.peerHeap[p].roomId
               ELSE ""
      err == IF named = "" THEN "" ELSE requireRoomIdMatch(W, c, named)
      roomId == Trim(named)
  IN  IF err # "" THEN send(W, c, failMsg(rq, err))
      ELSE IF roomId = "" \/ W.rooms[roomId] = 0
        THEN send(W, c, failMsg(rq, "room not found"))
      ELSE send(W, c, [okMsg(rq) EXCEPT !.prods = roomProducerList(W, W.rooms[roomId])])

ListProducers(sessionInputs, roomInputs) ==
  \E c \in DOMAIN conns, sessionIdMsg \in sessionInputs, roomIdMsg \in roomInputs :
    /\ Listening(c)
    /\ Commit(onListProducers(World, c, NextRq(c), sessionIdMsg, roomIdMsg))
    /\ UNCHANGED tokVars

\* =========================================================================
\* server.ts: ws.on("close") and the grace timer
\* =========================================================================

\* The first Client of sessions.values() whose ws is c (0: none). Clients
\* enter the Map in the order they are created.
OwnerOf(W, c) ==
  LET S == { p \in PeerOids : W.peerHeap[p].ws = c
                          /\ W.peerHeap[p].sessionId # ""
                          /\ W.sessions[W.peerHeap[p].sessionId] = p }
  IN  IF S = {} THEN 0 ELSE MinOf(S)

onClose(W, c) ==
  LET W1 == [W EXCEPT !.conns[c].st = "closed"]
      p == OwnerOf(W1, c)
  IN  IF p = 0 THEN W1 ELSE scheduleGraceCleanup(W1, p)

\* The socket of an admitted connection closes (the client left, the network
\* dropped, or the server's own close() completed).
WsClose ==
  \E c \in DOMAIN conns :
    /\ conns[c].st \in {"open", "closing"}
    /\ Commit(onClose(World, c))
    /\ UNCHANGED tokVars

\* The grace timer of Client p fires.
onGraceExpired(W, p) == destroyPeer([W EXCEPT !.peerHeap[p].timer = FALSE], p)

GraceExpire ==
  \E p \in PeerOids :
    /\ peerHeap[p].timer
    /\ Commit(onGraceExpired(World, p))
    /\ UNCHANGED tokVars

\* =========================================================================
\* The token-gated server
\* =========================================================================
\* The message types whose send() calls a run records in `out`.
Observed == {"close", "welcome", "peerLeft", "producerClosed"}

SrvInit ==
  /\ conns = [c \in ConnIds |-> NoConn]
  /\ sessions = [s \in AllSessionIds |-> 0]
  /\ peerHeap = [o \in PeerOids |-> NoPeer]
  /\ rooms = [r \in RoomIds |-> 0]
  /\ roomHeap = [o \in RoomOids |-> NoRoom]
  /\ transports = [o \in TransportIds |-> NoTransport]
  /\ producers = [o \in ProducerIds |-> NoProducer]
  /\ pending = {}
  /\ resumed = {}
  /\ out = <<>>

Init ==
  /\ rec = Observed
  /\ now = 1
  /\ usedJti = [j \in TokJtis |-> 0]
  /\ tokCall = [tok |-> NoToken, opts |-> NoOpts, at |-> 0, res |-> "none"]
  /\ acceptedExp = [j \in TokJtis |-> 0]
  /\ SrvInit

\* The inputs of the runs below: two clients of room r1, with tokens that bind
\* no sessionId.
Bindings == { <<"r1", "p1", "">>, <<"r1", "p2", "">> }
RoomInputs == {"r1"}
SessionInputs == {"s1", "s2"}

Next ==
  \/ Connect(Bindings)
  \/ Join(RoomInputs, SessionInputs)
  \/ ResumeSession(RoomInputs, SessionInputs)
  \/ CreateTransport(SessionInputs, {"send", "recv"})
  \/ Produce(SessionInputs, {"audio"}, {TRUE})
  \/ RoomCreated
  \/ TransportCreated
  \/ Produced
  \/ EngineThrow
  \/ DtlsClosed
  \/ WsClose
  \/ GraceExpire

Spec == Init /\ [][Next]_vars

\* The session lifecycle alone (clients of one peerId, no media requests),
\* where an armed grace timer eventually fires and an awaited media-engine
\* call eventually settles. Nothing is assumed of the clients: they may never
\* connect or send again.
LifecycleNext ==
  \/ Connect({<<"r1", "p1", "">>})
  \/ Join(RoomInputs, SessionInputs)
  \/ ResumeSession(RoomInputs, SessionInputs)
  \/ RoomCreated
  \/ EngineThrow
  \/ WsClose
  \/ GraceExpire

SpecFair ==
  /\ Init
  /\ [][LifecycleNext]_vars
  /\ WF_vars(GraceExpire)
  /\ WF_vars(EngineThrow \/ RoomCreated)

\* =========================================================================
\* The token-gated server with clients of two rooms: one user (peerId p1) holds
\* tokens for r1 and for r2 and uses one sessionId. Responses are recorded.
\* =========================================================================
TwoRoomBindings == { <<"r1", "p1", "">>, <<"r2", "p1", "">> }
TwoRoomInputs == {"r1", "r2"}

TwoRoomInit ==
  /\ rec = {"response", "close"}
  /\ now = 1
  /\ usedJti = [j \in TokJtis |-> 0]
  /\ tokCall = [tok |-> NoToken, opts |-> NoOpts, at |-> 0, res |-> "none"]
  /\ acceptedExp = [j \in TokJtis |-> 0]
  /\ SrvInit

TwoRoomNext ==
  \/ Connect(TwoRoomBindings)
  \/ Join(TwoRoomInputs, {"s1"})
  \/ ResumeSession(TwoRoomInputs, {"s1"})
  \/ ListProducers({"s1"}, TwoRoomInputs \cup {""})
  \/ CreateTransport({"s1"}, {"send"})
  \/ RoomCreated
  \/ TransportCreated
  \/ EngineThrow
  \/ WsClose
  \/ GraceExpire

SpecTwoRooms == TwoRoomInit /\ [][TwoRoomNext]_vars

\* =========================================================================
\* The token-gated server with every reply recorded: the responses and the
\* newProducer events are kept in `out` beside the messages kept above, and
\* the clients also send requests that fail.
\* =========================================================================
RepliesInit ==
  /\ rec = Observed \cup {"response", "newProducer"}
  /\ now = 1
  /\ usedJti = [j \in TokJtis |-> 0]
  /\ tokCall = [tok |-> NoToken, opts |-> NoOpts, at |-> 0, res |-> "none"]
  /\ acceptedExp = [j \in TokJtis |-> 0]
  /\ SrvInit

\* The requests the clients send.
Requests ==
  \/ Join(RoomInputs, {"s1"})
  \/ ResumeSession(RoomInputs, {"s1"})
  \/ ListProducers({"s1"}, {""})
  \/ CreateTransport({"s1"}, {"send", "sideways"})
  \/ ConnectTransport({"s1"}, {"send"}, {TRUE})
  \/ Produce({"s1"}, {"audio"}, {TRUE, FALSE})
  \/ Unknown({"s1"})

RepliesNext ==
  \/ Connect(Bindings)
  \/ Requests
  \/ RoomCreated
  \/ TransportCreated
  \/ TransportConnected
  \/ Produced
  \/ EngineThrow
  \/ DtlsClosed
  \/ WsClose
  \/ GraceExpire

SpecReplies == RepliesInit /\ [][RepliesNext]_vars

\* =========================================================================
\* The token-gated server with a token that binds a sessionId: one client
\* holds tokens bound to session s1, another tokens that bind none, and the
\* payloads name s1, s2 or no session. Responses are recorded.
\* =========================================================================
BoundBindings == { <<"r1", "p1", "s1">>, <<"r1", "p1", "">> }
BoundSessionInputs == {"", "s1", "s2"}

BoundInit ==
  /\ rec = {"response"}
  /\ now = 1
  /\ usedJti = [j \in TokJtis |-> 0]
  /\ tokCall = [tok |-> NoToken, opts |-> NoOpts, at |-> 0, res |-> "none"]
  /\ acceptedExp = [j \in TokJtis |-> 0]
  /\ SrvInit

BoundNext ==
  \/ Connect(BoundBindings)
  \/ Join(RoomInputs, BoundSessionInputs)
  \/ ResumeSession(RoomInputs, BoundSessionInputs)
  \/ RoomCreated
  \/ EngineThrow
  \/ WsClose
  \/ GraceExpire

SpecBound == BoundInit /\ [][BoundNext]_vars

\* =========================================================================
\* The token-gated server with a third connection, so that a client can come
\* back on a new connection while another client's connection stays open. The
\* peerJoined events are recorded.
\* =========================================================================
RejoinInit ==
  /\ rec = {"peerJoined"}
  /\ now = 1
  /\ usedJti = [j \in 1..MaxRejoin |-> 0]
  /\ tokCall = [tok |-> NoToken, opts |-> NoOpts, at |-> 0, res |-> "none"]
  /\ acceptedExp = [j \in 1..MaxRejoin |-> 0]
  /\ conns = [c \in 1..MaxRejoin |-> NoConn]
  /\ sessions = [s \in AllSessionIds |-> 0]
  /\ peerHeap = [o \in PeerOids |-> NoPeer]
  /\ rooms = [r \in RoomIds |-> 0]
  /\ roomHeap = [o \in RoomOids |-> NoRoom]
  /\ transports = [o \in TransportIds |-> NoTransport]
  /\ producers = [o \in ProducerIds |-> NoProducer]
  /\ pending = {}
  /\ resumed = {}
  /\ out = <<>>

RejoinNext ==
  \/ Connect(Bindings)
  \/ Join(RoomInputs, SessionInputs)
  \/ ResumeSession(RoomInputs, SessionInputs)
  \/ RoomCreated
  \/ EngineThrow
  \/ WsClose
  \/ GraceExpire

SpecRejoin == RejoinInit /\ [][RejoinNext]_vars

\* =========================================================================
\* The token-gated server observed for the newProducer events it sends.
\* =========================================================================
AnnounceInit ==
  /\ rec = {"newProducer"}
  /\ now = 1
  /\ usedJti = [j \in TokJtis |-> 0]
  /\ tokCall = [tok |-> NoToken, opts |-> NoOpts, at |-> 0, res |-> "none"]
  /\ acceptedExp = [j \in TokJtis |-> 0]
  /\ SrvInit

SpecAnnounce == AnnounceInit /\ [][Next]_vars

\* =========================================================================
\* The token-gated server with a client that asks for a transport of a
\* direction more than once: the run may create MaxRenewed transports.
\* =========================================================================
RenewInit ==
  /\ rec = {}
  /\ now = 1
  /\ usedJti = [j \in TokJtis |-> 0]
  /\ tokCall = [tok |-> NoToken, opts |-> NoOpts, at |-> 0, res |-> "none"]
  /\ acceptedExp = [j \in TokJtis |-> 0]
  /\ conns = [c \in ConnIds |-> NoConn]
  /\ sessions = [s \in AllSessionIds |-> 0]
  /\ peerHeap = [o \in PeerOids |-> NoPeer]
  /\ rooms = [r \in RoomIds |-> 0]
  /\ roomHeap = [o \in RoomOids |-> NoRoom]
  /\ transports = [o \in 1..MaxRenewed |-> NoTransport]
  /\ producers = [o \in ProducerIds |-> NoProducer]
  /\ pending = {}
  /\ resumed = {}
  /\ out = <<>>

RenewNext ==
  \/ Connect({<<"r1", "p1", "">>})
  \/ Join(RoomInputs, {"s1"})
  \/ CreateTransport({"s1"}, {"send", "recv"})
  \/ RoomCreated
  \/ TransportCreated
  \/ EngineThrow
  \/ DtlsClosed
  \/ WsClose
  \/ GraceExpire

SpecRenew == RenewInit /\ [][RenewNext]_vars

\* =========================================================================
\* The server without the token gate (the second server.ts of the source).
\* Its helpers, getRoom, the close handler and the grace timer are the ones
\* above, statement for statement; the handlers below differ.
\* =========================================================================

\* wss.on("connection"): a boot welcome with a temporary peerId, no gate.
onConnectionUngated(W, c) ==
  send([W EXCEPT !.conns[c] = [NoConn EXCEPT !.st = "open"]], c, Msg("welcome"))

ConnectUngated ==
  \E c \in DOMAIN conns :
    /\ conns[c].st = "free"
    /\ \A q \in 1..(c - 1) : conns[q].st # "free"
    /\ Commit(onConnectionUngated(World, c))
    /\ UNCHANGED tokVars

\* join: the identity comes from the payload; an existing Client is adopted
\* whatever peerId the payload names, and its roomId is overwritten.
onJoinUngated(W, c, rq, roomIdMsg, sessionIdMsg, peerIdMsg, gen) ==
  LET roomId == Trim(roomIdMsg)
      sessionId == IF Trim(sessionIdMsg) # "" THEN Trim(sessionIdMsg) ELSE gen
      p == W.sessions[sessionId]
      n == Fresh(W.peerHeap, NoPeer)
      W1 == IF p = 0
              THEN [W EXCEPT !.peerHeap[n] = [NoPeer EXCEPT !.sessionId = sessionId,
                                                            !.peerId = peerIdMsg,
                                                            !.ws = c],
                             !.sessions[sessionId] = n]
              ELSE adopt(W, p, c)
      q == IF p = 0 THEN n ELSE p
      h == Handler(rq, "join", c, q, roomId, "", 0, "")
  IN  IF roomId = "" THEN send(W, c, failMsg(rq, "roomId required"))
      ELSE callGetRoom([W1 EXCEPT !.peerHeap[q].roomId = roomId], h)

JoinUngated(roomInputs, identities) ==
  \E c \in DOMAIN conns, roomIdMsg \in roomInputs, id \in identities, gen \in GenSessionIds :
    /\ Listening(c)
    /\ sessions[gen] = 0
    /\ InOrder(id[1], SessionIdSeq, SessionIdsSeen)
    /\ CanHandle(IF sessions[id[1]] # 0 THEN sessions[id[1]]
                 ELSE IF HasFree(peerHeap, NoPeer) THEN Fresh(peerHeap, NoPeer)
                 ELSE MaxPeers + 1,
                 Trim(roomIdMsg))
    /\ Commit(onJoinUngated(World, c, NextRq(c), roomIdMsg, id[1], id[2], gen))
    /\ UNCHANGED tokVars

\* createTransport: the room is looked up before the await; a transport
\* already in the slot is closed first.
onCreateTransportUngated(W, c, rq, sessionIdMsg, direction) ==
  LET sid == Trim(sessionIdMsg)
      p == IF sid = "" THEN 0 ELSE W.sessions[sid]
      r == IF p = 0 \/ W.peerHeap[p].roomId = "" THEN 0 ELSE W.rooms[W.peerHeap[p].roomId]
      W1 == IF direction = "send"
              THEN [transportClose(W, W.peerHeap[p].send) EXCEPT !.peerHeap[p].send = 0]
            ELSE IF direction = "recv"
              THEN [transportClose(W, W.peerHeap[p].recv) EXCEPT !.peerHeap[p].recv = 0]
            ELSE W
  IN  IF p = 0 THEN send(W, c, failMsg(rq, "invalid sessionId (peer not found)"))
      ELSE IF r = 0 THEN send(W, c, failMsg(rq, "room not found"))
      ELSE [W1 EXCEPT !.pending = @ \cup
              {Handler(rq, "createTransport", c, p, "", direction, r,
                       "createWebRtcTransport")}]

CreateTransportUngated(sessionInputs, directions) ==
  \E c \in DOMAIN conns, sessionIdMsg \in sessionInputs, direction \in directions :
    /\ Listening(c)
    /\ Cardinality(pending) < MaxPending
    /\ Allocated(transports, NoTransport, {"createTransport"}) < Len(transports)
    /\ Commit(onCreateTransportUngated(World, c, NextRq(c), sessionIdMsg, direction))
    /\ UNCHANGED tokVars

\* produce up to its await: the room is looked up before the await.
onProduceUngated(W, c, rq, sessionIdMsg, kind) ==
  LET sid == Trim(sessionIdMsg)
      p == IF sid = "" THEN 0 ELSE W.sessions[sid]
      r == IF p = 0 \/ W.peerHeap[p].roomId = "" THEN 0 ELSE W.rooms[W.peerHeap[p].roomId]
  IN  IF p = 0 THEN send(W, c, failMsg(rq, "invalid sessionId (peer not found)"))
      ELSE IF r = 0 THEN send(W, c, failMsg(rq, "room not found"))
      ELSE IF W.peerHeap[p].send = 0 THEN send(W, c, failMsg(rq, "send transport not ready"))
      ELSE [W EXCEPT !.pending = @ \cup
              {[Handler(rq, "produce", c, p, "", kind, W.peerHeap[p].send, "produce")
                  EXCEPT !.room = r]}]

ProduceUngated(sessionInputs, kinds) ==
  \E c \in DOMAIN conns, sessionIdMsg \in sessionInputs, kind \in kinds :
    /\ Listening(c)
    /\ Cardinality(pending) < MaxPending
    /\ Allocated(producers, NoProducer, {"produce"}) < Len(producers)
    /\ Commit(onProduceUngated(World, c, NextRq(c), sessionIdMsg, kind))
    /\ UNCHANGED tokVars

\* audioLevelObserver.addProducer: an audio producer of the observer's own
\* router is observed; for any other the call fails and is ignored.
addProducer(W, r, pid) ==
  IF /\ W.producers[pid].open
     /\ ~W.roomHeap[r].closed
     /\ W.transports[W.producers[pid].transport].router = r
    THEN [W EXCEPT !.roomHeap[r].observed = @ \cup {pid}]
    ELSE W

\* ------------------------------------------------------------- consume
ConsumerIds == 1..MaxConsumers

\* The consumers held in the consumer maps of the Clients.
ConsumersHeld(W) == UNION { W.peerHeap[p].consumers : p \in PeerOids }

\* room.router.canConsume({producerId, rtpCapabilities}): the router holds the
\* producer and the capabilities given (capsOk) can receive it.
canConsume(W, r, producerId, capsOk) ==
  /\ producerId \in DOMAIN W.producers
  /\ W.producers[producerId].open
  /\ W.transports[W.producers[producerId].transport].router = r
  /\ ~W.roomHeap[r].closed
  /\ capsOk

\* The token-gated consume up to its await (part_000 lines 723-747): the error
\* thrown, or "". producerId 0 stands for a payload without producerId;
\* hasCaps for a payload with rtpCapabilities, capsOk for capabilities the
\* router can serve.
consumeChecks(W, p, producerId, hasCaps, capsOk) ==
  LET peer == W.peerHeap[p]
      r == IF peer.roomId = "" THEN 0 ELSE W.rooms[peer.roomId]
      S == IF r = 0 THEN {}
           ELSE { e \in W.roomHeap[r].producers : e.producerId = producerId }
  IN  IF producerId = 0 THEN "missing producerId"
      ELSE IF peer.recv = 0 THEN "recv transport not ready"
      ELSE IF peer.roomId = "" THEN "room not joined"
      ELSE IF r = 0 THEN "room not found"
      ELSE IF ~hasCaps THEN "missing rtpCapabilities"
      ELSE IF S = {} THEN "producer not found"
      ELSE IF \E e \in S : e.peerId = peer.peerId THEN "cannot consume self"
      ELSE IF ~canConsume(W, r, producerId, capsOk) THEN "cannot consume (rtpCapabilities)"
      ELSE ""

onConsume(W, c, rq, sessionIdMsg, producerId, hasCaps, capsOk) ==
  LET found == requirePeer(W, c, sessionIdMsg)
      p == found.p
      err == IF found.err # "" THEN found.err
             ELSE consumeChecks(W, p, producerId, hasCaps, capsOk)
  IN  IF err # "" THEN send(W, c, failMsg(rq, err))
      ELSE [W EXCEPT !.pending = @ \cup
              {[Handler(rq, "consume", c, p, "", "", W.peerHeap[p].recv, "consume")
                  EXCEPT !.producer = producerId]}]

\* consume up to its await (part_001 lines 553-567).
onConsumeUngated(W, c, rq, sessionIdMsg, producerId, capsOk) ==
  LET sid == Trim(sessionIdMsg)
      p == IF sid = "" THEN 0 ELSE W.sessions[sid]
      r == IF p = 0 \/ W.peerHeap[p].roomId = "" THEN 0 ELSE W.rooms[W.peerHeap[p].roomId]
  IN  IF p = 0 THEN send(W, c, failMsg(rq, "invalid sessionId (peer not found)"))
      ELSE IF r = 0 THEN send(W, c, failMsg(rq, "room not found"))
      ELSE IF W.peerHeap[p].recv = 0 THEN send(W, c, failMsg(rq, "recv transport not ready"))
      ELSE IF ~canConsume(W, r, producerId, capsOk)
        THEN send(W, c, failMsg(rq, "cannot consume"))
      ELSE [W EXCEPT !.pending = @ \cup
              {[Handler(rq, "consume", c, p, "", "", W.peerHeap[p].recv, "consume")
                  EXCEPT !.producer = producerId]}]

ConsumeUngated(sessionInputs, producerInputs, capsInputs) ==
  \E c \in DOMAIN conns, sessionIdMsg \in sessionInputs, producerId \in producerInputs,
     capsOk \in capsInputs :
    /\ Listening(c)
    /\ Cardinality(pending) < MaxPending
    /\ Cardinality(ConsumersHeld(World))
         + Cardinality({ h \in pending : h.type = "consume" }) < MaxConsumers
    /\ Commit(onConsumeUngated(World, c, NextRq(c), sessionIdMsg, producerId, capsOk))
    /\ UNCHANGED tokVars

\* consume after its await (part_001 lines 569-583): the consumer enters the
\* Client's consumer map and the request is answered.
consumedUngated(W, h) ==
  LET cid == MinOf(ConsumerIds \ ConsumersHeld(W))
      W1 == [W EXCEPT !.peerHeap[h.peer].consumers = @ \cup {cid},
                      !.pending = @ \ {h}]
  IN  send(W1, h.ws, [okMsg(h.rq) EXCEPT !.producerId = h.producer])

ConsumedUngated ==
  \E h \in pending :
    /\ h.stage = "consume"
    /\ transports[h.obj].open
    /\ producers[h.producer].open
    /\ Commit(consumedUngated(World, h))
    /\ UNCHANGED tokVars

\* The produce handler announcing before it replies.
producedUngated_early(W, h) ==
  LET pid == Fresh(W.producers, NoProducer)
      peer == W.peerHeap[h.peer]
      W1 == [W EXCEPT !.producers[pid] =
                        [transport |-> h.obj, kind |-> h.arg, open |-> TRUE,
                         listener |-> 0],
                      !.peerHeap[h.peer].producers = @ \cup {pid},
                      !.roomHeap[h.room].producers = @ \cup
                         {[producerId |-> pid, peerId |-> peer.peerId, kind |-> h.arg]},
                      !.pending = @ \ {h}]
      W2 == IF h.arg = "audio" THEN addProducer(W1, h.room, pid) ELSE W1
      W3 == broadcastRoom(W2, h.room,
                          [Msg("newProducer") EXCEPT !.producerId = pid,
                                                     !.peerId = peer.peerId,
                                                     !.kind = h.arg],
                          peer.peerId)
  IN  send(W3, h.ws, [okMsg(h.rq) EXCEPT !.producerId = pid])

\* produce after its await: the producer enters the Client's producers and
\* the index of the room looked up before the await, audio is attached to the
\* level observer, and newProducer goes to the others. No "transportclose"
\* handler is registered.
producedUngated(W, h) ==
  LET pid == Fresh(W.producers, NoProducer)
      peer == W.peerHeap[h.peer]
      W1 == [W EXCEPT !.producers[pid] =
                        [transport |-> h.obj, kind |-> h.arg, open |-> TRUE,
                         listener |-> 0],
                      !.peerHeap[h.peer].producers = @ \cup {pid},
                      !.roomHeap[h.room].producers = @ \cup
                         {[producerId |-> pid, peerId |-> peer.peerId, kind |-> h.arg]},
                      !.pending = @ \ {h}]
      W2 == IF h.arg = "audio" THEN addProducer(W1, h.room, pid) ELSE W1
      W3 == send(W2, h.ws, [okMsg(h.rq) EXCEPT !.producerId = pid])
  IN  broadcastRoom(W3, h.room,
                    [Msg("newProducer") EXCEPT !.producerId = pid,
                                               !.peerId = peer.peerId,
                                               !.kind = h.arg],
                    peer.peerId)

ProducedUngated ==
  \E h \in pending :
    /\ h.stage = "produce"
    /\ transports[h.obj].open
    /\ Commit(producedUngated(World, h))
    /\ UNCHANGED tokVars

\* ------------------------------------------------ the level observer
\* The peerId the producer index of room r gives for pid ("" if none).
indexPeerId(W, r, pid) ==
  IF \E e \in W.roomHeap[r].producers : e.producerId = pid
    THEN EntryWithId(W.roomHeap[r].producers, pid).peerId
    ELSE ""

RECURSIVE announceSpeaking(_, _, _, _)
\* producerSpeaking for each producer of S, in id order.
announceSpeaking(W, r, S, flag) ==
  IF S = {} THEN W
  ELSE announceSpeaking(
         broadcastRoom(W, r,
                       [Msg("producerSpeaking") EXCEPT
                          !.producerId = MinOf(S),
                          !.peerId = indexPeerId(W, r, MinOf(S)),
                          !.speaking = flag],
                       ""),
         r, S \ {MinOf(S)}, flag)

\* A volumes handler that never drops a producer from the speaking set.
onVolumes_sticky(W, r, active) ==
  LET W1 == announceSpeaking(W, r, active, TRUE)
  IN  [W1 EXCEPT !.roomHeap[r].speaking = @ \cup active]

\* audioLevelObserver.on("volumes"): the producers of `active` are announced
\* speaking, those no longer active are dropped and announced silent, and the
\* active ones join the speaking set.
onVolumes(W, r, active) ==
  LET W1 == announceSpeaking(W, r, active, TRUE)
      gone == W1.roomHeap[r].speaking \ active
      W2 == announceSpeaking([W1 EXCEPT !.roomHeap[r].speaking = @ \ gone], r, gone, FALSE)
  IN  [W2 EXCEPT !.roomHeap[r].speaking = @ \cup active]

\* The observer of a room reports the producers attached to it, some of which
\* are loud.
Volumes ==
  \E r \in RoomOids, active \in SUBSET DOMAIN producers :
    /\ roomHeap[r] # NoRoom
    /\ ~roomHeap[r].closed
    /\ active # {}
    /\ active \subseteq roomHeap[r].observed
    /\ Commit(onVolumes(World, r, active))
    /\ UNCHANGED tokVars

\* audioLevelObserver.on("silence")
onSilence(W, r) ==
  announceSpeaking([W EXCEPT !.roomHeap[r].speaking = {}], r, W.roomHeap[r].speaking, FALSE)

Silence ==
  \E r \in RoomOids :
    /\ roomHeap[r] # NoRoom
    /\ ~roomHeap[r].closed
    /\ roomHeap[r].speaking # {}
    /\ Commit(onSilence(World, r))
    /\ UNCHANGED tokVars

\* Three clients, two of which name the same peerId.
Identities == { <<"s1", "p1">>, <<"s2", "p1">>, <<"s3", "p2">> }

UngatedInit ==
  /\ rec = {}
  /\ now = 1
  /\ usedJti = [j \in TokJtis |-> 0]
  /\ tokCall = [tok |-> NoToken, opts |-> NoOpts, at |-> 0, res |-> "none"]
  /\ acceptedExp = [j \in TokJtis |-> 0]
  /\ SrvInit

UngatedNext ==
  \/ ConnectUngated
  \/ JoinUngated(RoomInputs, Identities)
  \/ CreateTransportUngated({"s1"}, {"send"})
  \/ ProduceUngated({"s1"}, {"audio"})
  \/ RoomCreated
  \/ TransportCreated
  \/ ProducedUngated
  \/ Volumes
  \/ Silence
  \/ WsClose
  \/ GraceExpire

SpecUngated == UngatedInit /\ [][UngatedNext]_vars

\* The same server with its responses and newProducer events recorded.
UngatedSeenInit ==
  /\ rec = {"response", "newProducer"}
  /\ now = 1
  /\ usedJti = [j \in TokJtis |-> 0]
  /\ tokCall = [tok |-> NoToken, opts |-> NoOpts, at |-> 0, res |-> "none"]
  /\ acceptedExp = [j \in TokJtis |-> 0]
  /\ SrvInit

SpecUngatedSeen == UngatedSeenInit /\ [][UngatedNext]_vars

\* The same server watched for what its level observers do: a run may create
\* MaxLoud producers, so that one can fall silent while another is loud.
LevelsInit ==
  /\ rec = {"producerSpeaking"}
  /\ now = 1
  /\ usedJti = [j \in TokJtis |-> 0]
  /\ tokCall = [tok |-> NoToken, opts |-> NoOpts, at |-> 0, res |-> "none"]
  /\ acceptedExp = [j \in TokJtis |-> 0]
  /\ conns = [c \in ConnIds |-> NoConn]
  /\ sessions = [s \in AllSessionIds |-> 0]
  /\ peerHeap = [o \in PeerOids |-> NoPeer]
  /\ rooms = [r \in RoomIds |-> 0]
  /\ roomHeap = [o \in RoomOids |-> NoRoom]
  /\ transports = [o \in TransportIds |-> NoTransport]
  /\ producers = [o \in 1..MaxLoud |-> NoProducer]
  /\ pending = {}
  /\ resumed = {}
  /\ out = <<>>

LevelsNext ==
  \/ ConnectUngated
  \/ JoinUngated(RoomInputs, {<<"s1", "p1">>, <<"s3", "p2">>})
  \/ CreateTransportUngated({"s1"}, {"send"})
  \/ ProduceUngated({"s1"}, {"audio"})
  \/ RoomCreated
  \/ TransportCreated
  \/ ProducedUngated
  \/ Volumes
  \/ Silence
  \/ WsClose
  \/ GraceExpire

SpecLevels == LevelsInit /\ [][LevelsNext]_vars

\* The same server with clients that also ask for a recv transport and consume.
ConsumeInit ==
  /\ rec = {"response"}
  /\ now = 1
  /\ usedJti = [j \in TokJtis |-> 0]
  /\ tokCall = [tok |-> NoToken, opts |-> NoOpts, at |-> 0, res |-> "none"]
  /\ acceptedExp = [j \in TokJtis |-> 0]
  /\ conns = [c \in ConnIds |-> NoConn]
  /\ sessions = [s \in AllSessionIds |-> 0]
  /\ peerHeap = [o \in PeerOids |-> NoPeer]
  /\ rooms = [r \in RoomIds |-> 0]
  /\ roomHeap = [o \in RoomOids |-> NoRoom]
  /\ transports = [o \in 1..MaxRenewed |-> NoTransport]
  /\ producers = [o \in ProducerIds |-> NoProducer]
  /\ pending = {}
  /\ resumed = {}
  /\ out = <<>>

ConsumeNext ==
  \/ ConnectUngated
  \/ JoinUngated(RoomInputs, {<<"s1", "p1">>, <<"s3", "p2">>})
  \/ CreateTransportUngated({"s1"}, {"send", "recv"})
  \/ ProduceUngated({"s1"}, {"audio"})
  \/ ConsumeUngated({"s1"}, ProducerIds, {TRUE, FALSE})
  \/ RoomCreated
  \/ TransportCreated
  \/ ProducedUngated
  \/ ConsumedUngated
  \/ EngineThrow
  \/ WsClose
  \/ GraceExpire

SpecConsume == ConsumeInit /\ [][ConsumeNext]_vars

\* =========================================================================
\* The token codec alone: any sequence of verifyToken calls at
\* non-decreasing times.
\* =========================================================================
TokInit ==
  /\ now = 1
  /\ usedJti = [j \in TokJtis |-> 0]
  /\ tokCall = [tok |-> NoToken, opts |-> NoOpts, at |-> 0, res |-> "none"]
  /\ acceptedExp = [j \in TokJtis |-> 0]
  /\ SrvInit
  /\ rec = {}

TokVerify ==
  \E tok \in TokenInputs(now), opts \in OptInputs :
    LET r == verifyToken(tok, opts, now, usedJti) IN
      /\ usedJti' = r.used
      /\ tokCall' = [tok |-> tok, opts |-> opts, at |-> now, res |-> r.res]
      /\ acceptedExp' =
           IF r.res = "ok" /\ opts.consumeJti
             THEN [acceptedExp EXCEPT ![tok.jti] = Max(@, tok.exp)]
             ELSE acceptedExp
      /\ UNCHANGED now
      /\ UNCHANGED srvVars

TokTick ==
  /\ now < MaxNow
  /\ now' = now + 1
  /\ UNCHANGED <<usedJti, tokCall, acceptedExp>>
  /\ UNCHANGED srvVars

\* A connection presents one of the tokens above in its query string: the gate
\* verifies it with consumeJti = true.
TokConnect ==
  \E c \in DOMAIN conns, tok \in GateTokens(now) :
    LET opts == VerifyOpts(TRUE, "", "", "")
        r == verifyToken(tok, opts, now, usedJti)
    IN  /\ conns[c].st = "free"
        /\ \A q \in 1..(c - 1) : conns[q].st # "free"
        /\ usedJti' = gate(TRUE, tok).used
        /\ tokCall' = [tok |-> tok, opts |-> opts, at |-> now, res |-> r.res]
        /\ acceptedExp' =
             IF r.res = "ok" THEN [acceptedExp EXCEPT ![tok.jti] = Max(@, tok.exp)]
             ELSE acceptedExp
        /\ Commit(onConnection(World, c, TRUE, tok))
        /\ UNCHANGED now

TokNext == TokVerify \/ TokConnect \/ TokTick

SpecToken == TokInit /\ [][TokNext]_vars

\* The token codec alone: payloads are signed and the tokens verified with no
\* options, as the clock advances.
CodecInit ==
  /\ now = 1
  /\ usedJti = [j \in TokJtis |-> 0]
  /\ tokCall = [tok |-> NoToken, opts |-> NoOpts, at |-> 0, res |-> "none",
                signed |-> NoPayload, ret |-> NoPayload]
  /\ acceptedExp = [j \in TokJtis |-> 0]
  /\ SrvInit
  /\ rec = {}

TokSign ==
  \E payload \in PayloadInputs(now) :
    LET tok == signToken(payload)
        r == verifyToken(tok, NoOpts, now, usedJti)
    IN  /\ usedJti' = r.used
        /\ tokCall' = [tok |-> tok, opts |-> NoOpts, at |-> now, res |-> r.res,
                       signed |-> payload,
                       ret |-> IF r.res = "ok" THEN payloadOf(tok) ELSE NoPayload]
        /\ UNCHANGED <<now, acceptedExp>>
        /\ UNCHANGED srvVars

CodecNext == TokSign \/ TokTick

SpecCodec == CodecInit /\ [][CodecNext]_vars

\* =========================================================================
\* Properties
\* =========================================================================

\* A step that is a verifyToken call: tokCall' describes it.
VerifyStep == tokCall' # tokCall

WellFormed(tok) ==
  /\ tok.fmt = "ok" /\ tok.roomId # "" /\ tok.peerId # ""
  /\ tok.jti # 0 /\ tok.iat # 0 /\ tok.exp # 0

\* C1: among verifyToken calls with consumeJti = true at non-decreasing times,
\* once a token with nonce j and expiry E was accepted, a call at a time
\* now < E with the same jti is not accepted; it fails with "replayed" when
\* every other check passes, and a connection presenting it is closed with 1008.
C1_NoReplayBeforeExpiry ==
  [][ \A j \in TokJtis :
        ( /\ VerifyStep
          /\ tokCall'.opts.consumeJti
          /\ tokCall'.tok.jti = j
          /\ tokCall'.at < acceptedExp[j] )
        => /\ tokCall'.res # "ok"
           /\ verifyChecks(tokCall'.tok, tokCall'.opts, tokCall'.at) = "pass"
                => tokCall'.res = "replayed"
           /\ \A c \in ConnIds :
                conns[c].st = "free" /\ conns'[c].st # "free"
                  => conns'[c].st = "rejected" /\ conns'[c].code = 1008
    ]_vars

\* A second connection presented a token that was accepted before and has not
\* expired: the call failed with "replayed" and the connection was refused.
C1_Witness ==
  /\ tokCall.res = "replayed"
  /\ tokCall.at < acceptedExp[tokCall.tok.jti]
  /\ conns[1].st = "open"
  /\ conns[2].st = "rejected"

\* C3: verifyToken never accepts a token whose exp is <= now; a token that
\* passes the checks before the expiry test and has exp <= now (exp = now
\* included) fails with "expired", whatever consumeJti and the usedJti table are.
C3_ExpiredNeverAccepted ==
  tokCall.res # "none" =>
    /\ tokCall.tok.exp <= tokCall.at => tokCall.res # "ok"
    /\ WellFormed(tokCall.tok) /\ tokCall.tok.exp <= tokCall.at
         => tokCall.res = "expired"

\* A token whose exp equals now was rejected as expired while its nonce was in
\* the usedJti table.
C3_Witness ==
  /\ tokCall.res = "expired"
  /\ tokCall.tok.exp = tokCall.at
  /\ usedJti[tokCall.tok.jti] # 0

\* ------------------------------------------------------------ the server
\* The session records: the Client objects registered in `sessions`.
Records ==
  { p \in PeerOids : peerHeap[p].sessionId # "" /\ sessions[peerHeap[p].sessionId] = p }

\* The published rooms: the Room objects registered in `rooms`.
Published == { r \in RoomOids : roomHeap[r].id # "" /\ rooms[roomHeap[r].id] = r }

\* Room r's peer map maps p's peerId to p.
InPeerMap(p, r) == roomHeap[r].peers[peerHeap[p].peerId] = p

Members(r) == { p \in PeerOids : InPeerMap(p, r) }

SentTo(c) == { i \in 1..Len(out) : out[i].to = c }

\* What the gate does with a token in the current state.
GateOutcome(c, tok) == onConnection(World, c, tok # NoToken, tok)

Invalid(tok) ==
  tok = NoToken \/ verifyToken(tok, VerifyOpts(TRUE, "", "", ""), now, usedJti).res # "ok"

\* C2: a connection whose token is absent or fails verification is closed with
\* 1008 and never admitted: it gets no welcome (only the close), no request on
\* it is handled (it never listens, no handler and no session record refer to
\* it), and refusing it changes neither the session registry nor any room.
C2_RefusedNeverAdmitted ==
  [][ /\ \A c \in ConnIds, tok \in ConnectTokens(Bindings) \cup {NoToken} :
           conns[c].st = "free" /\ Invalid(tok)
             => /\ GateOutcome(c, tok).conns[c].st = "rejected"
                /\ GateOutcome(c, tok).conns[c].code = 1008
                /\ \A i \in 1..Len(GateOutcome(c, tok).out) :
                     GateOutcome(c, tok).out[i].type = "close"
      /\ \A c \in ConnIds :
           /\ conns[c].st = "rejected" => conns'[c] = conns[c]
           /\ conns'[c].st = "rejected"
                => /\ conns'[c].code = 1008
                   /\ ~Listening(c)'
                   /\ \A i \in SentTo(c)' : out'[i].type = "close"
                   /\ \A h \in pending' : h.ws # c
                   /\ \A p \in PeerOids : peerHeap'[p].ws # c
           /\ conns[c].st = "free" /\ conns'[c].st = "rejected"
                => UNCHANGED <<sessions, peerHeap, rooms, roomHeap, transports,
                               producers, pending>>
    ]_vars

\* A connection was refused for a replayed token while another connection has
\* joined a room.
C2_Witness ==
  /\ conns[2].st = "rejected"
  /\ \E i \in SentTo(2) : out[i].type = "close" /\ out[i].reason = "replayed"
  /\ \E p \in Records, r \in Published : InPeerMap(p, r)

\* C4: in every state, for every session record P and published room R,
\* P.roomId = R.id exactly when R's peer map maps P.peerId to P.
C4_RoomIdIffInPeerMap ==
  \A p \in Records, r \in Published :
    (peerHeap[p].roomId = roomHeap[r].id) <=> InPeerMap(p, r)

\* C5: once every request is answered, each published room has as many peer
\* map entries as there are session records with its roomId, and no two
\* session records with the same roomId carry the same peerId.
C5_PeerCountMatchesRecords ==
  pending = {} =>
    /\ \A r \in Published :
         Cardinality({ k \in PeerIds : roomHeap[r].peers[k] # 0 })
           = Cardinality({ p \in Records : peerHeap[p].roomId = roomHeap[r].id })
    /\ \A p, q \in Records :
         p # q /\ peerHeap[p].roomId # "" /\ peerHeap[p].roomId = peerHeap[q].roomId
           => peerHeap[p].peerId # peerHeap[q].peerId

\* C6: for every entry of a published room's producer index, the peer named by
\* the entry is a member of the room and has the producerId in its own
\* producers.
C6_IndexedProducerHasOwner ==
  \A r \in Published : \A e \in roomHeap[r].producers :
    \E p \in Records :
      /\ peerHeap[p].peerId = e.peerId
      /\ InPeerMap(p, r)
      /\ e.producerId \in peerHeap[p].producers

\* C7: in every state, the speaking set of each published room is a subset of
\* the producerIds of its producer index.
C7_SpeakingWithinIndex ==
  \A r \in Published :
    roomHeap[r].speaking \subseteq { e.producerId : e \in roomHeap[r].producers }

\* The room published under Client p's roomId (0: none).
RoomOf(p) == IF peerHeap[p].roomId = "" THEN 0 ELSE rooms[peerHeap[p].roomId]

\* out carries a message of the given type and peerId to connection c.
Told(c, type, peerId) ==
  \E i \in 1..Len(out) : out[i].to = c /\ out[i].type = type /\ out[i].peerId = peerId

\* C8: a room member whose connection dropped and whose armed grace timer was
\* cancelled by a join / resumeSession for its sessionId stays in the session
\* registry and in its room's peer map, with no peerLeft broadcast for its
\* peerId, as long as no grace timer is armed for it again.
C8_ResumedPeerStays ==
  \A p \in resumed :
    /\ p \in Records
    /\ ~peerHeap[p].timer
    /\ RoomOf(p) # 0
    /\ InPeerMap(p, RoomOf(p))
    /\ \A i \in 1..Len(out) :
         out[i].type = "peerLeft" => out[i].peerId # peerHeap[p].peerId

\* out carries a producerClosed message.
SaysProducerClosed(o) == \E i \in 1..Len(o) : o[i].type = "producerClosed"

\* The producerIds room r's producer index files under p's peerId.
IndexedFor(p, r) ==
  { e.producerId : e \in { x \in roomHeap[r].producers : x.peerId = peerHeap[p].peerId } }

\* A step in which the media of session record p is reset while the record
\* stays registered: resetPeerMedia, called by an adopting join / resumeSession.
ResetStep(p) ==
  /\ p \in Records /\ sessions'[peerHeap[p].sessionId] = p
  /\ peerHeap[p].send # 0 /\ peerHeap'[p].send = 0

\* C11: a join / resumeSession that adopts an existing record removes the
\* peer's entries from its room's producer index and speaking set and sends no
\* producerClosed; producerClosed is sent only by a step that destroys a
\* record (destroyPeer), never by resetPeerMedia.
C11_ResetIsSilent ==
  [][ /\ \A p \in PeerOids :
           ResetStep(p) =>
             /\ ~SaysProducerClosed(out')
             /\ RoomOf(p) # 0 =>
                  /\ \A e \in roomHeap'[RoomOf(p)].producers :
                       e.peerId # peerHeap[p].peerId
                  /\ roomHeap'[RoomOf(p)].speaking \cap IndexedFor(p, RoomOf(p)) = {}
      /\ \A p \in Records, c \in ConnIds :
           /\ ~SaysProducerClosed(adopt(World, p, c).out)
           /\ RoomOf(p) # 0 =>
                /\ EntriesOf(adopt(World, p, c), RoomOf(p), peerHeap[p].peerId) = {}
                /\ adopt(World, p, c).roomHeap[RoomOf(p)].speaking
                     \cap IndexedFor(p, RoomOf(p)) = {}
      /\ SaysProducerClosed(out') =>
           \E p \in Records : peerHeap[p].timer /\ sessions'[peerHeap[p].sessionId] = 0
    ]_vars

\* A peer that had produced was adopted by a join / resumeSession while another
\* peer was in the room: its producer is closed and gone from the index, it was
\* welcomed again, and no producerClosed was sent.
C11_Witness ==
  \E p \in Records, pid \in ProducerIds :
    /\ producers[pid].listener = p /\ ~producers[pid].open
    /\ peerHeap[p].send = 0
    /\ RoomOf(p) # 0 /\ InPeerMap(p, RoomOf(p))
    /\ \A e \in roomHeap[RoomOf(p)].producers : e.producerId # pid
    /\ \E q \in Records : q # p /\ InPeerMap(q, RoomOf(p)) /\ conns[peerHeap[q].ws].st = "open"
    /\ Told(peerHeap[p].ws, "welcome", peerHeap[p].peerId)
    /\ ~SaysProducerClosed(out)

\* C12: a createTransport / produce request that a connection gets past the
\* handler's checks (it is suspended in the media engine, and will create the
\* transport or producer of the Client it names) names a Client whose ws is
\* that connection.
C12_RequestsFromOwnConnection ==
  [][ \A h \in pending' \ pending :
        h.type \in {"createTransport", "produce"} => peerHeap[h.peer].ws = h.ws
    ]_vars

\* out carries a failed response with the given error.
Refused(o, err) ==
  \E i \in 1..Len(o) : o[i].type = "response" /\ ~o[i].ok /\ o[i].err = err

\* C13: a connection acts only in its token's room: a request answered
\* ok:false "roomId mismatch" changes no state, and no open connection is the
\* ws of a session record whose roomId is not its token's roomId.
C13_TokenRoomOnly ==
  [][ /\ Refused(out', "roomId mismatch")
           => UNCHANGED <<conns, sessions, peerHeap, rooms, roomHeap, transports,
                          producers, pending>>
      /\ \A p \in PeerOids :
           ( /\ peerHeap'[p].sessionId # ""
             /\ sessions'[peerHeap'[p].sessionId] = p
             /\ peerHeap'[p].roomId # ""
             /\ conns'[peerHeap'[p].ws].st = "open" )
           => conns'[peerHeap'[p].ws].tokenRoomId = peerHeap'[p].roomId
    ]_vars

Responses(o) == { i \in 1..Len(o) : o[i].type = "response" }

RepliesTo(o, c, n) ==
  Cardinality({ i \in Responses(o) : o[i].to = c /\ o[i].rq = n })

C15_FailureClosesNothing ==
  [][ (\E i \in Responses(out') : ~out'[i].ok) =>
        \A c \in ConnIds : conns[c].st = "open" => conns'[c].st = "open"
    ]_vars

\* The state a failed request must leave alone: the Client's roomId, transports
\* and producer map, the room directory, every room's peer map and indexes,
\* and the transports and producers themselves.
MediaState(W, p) ==
  [roomId |-> W.peerHeap[p].roomId, send |-> W.peerHeap[p].send,
   recv |-> W.peerHeap[p].recv, producers |-> W.peerHeap[p].producers,
   rooms |-> W.rooms, roomHeap |-> W.roomHeap, transports |-> W.transports,
   prods |-> W.producers]

\* C16: if the media-engine call a request awaits throws, the request is
\* answered ok:false and the state is as before the request. In every
\* reachable state, for every join or resumeSession a client can send now whose
\* handler is suspended in getRoom, the rejection of that call answers the
\* request ok:false and leaves the Client's roomId, transports and producer
\* map, the room directory, the rooms' peer maps and indexes as they are now.
C16_ThrowRestoresState ==
  \A c \in ConnIds, type \in {"join", "resumeSession"}, gen \in GenSessionIds :
    (/\ Listening(c)
     /\ sessions[gen] = 0
     /\ CanHandle(JoinTarget(World, c, "r1", "s1", gen), "r1")) =>
      LET W1 == onJoin(World, c, NextRq(c), type, "r1", "s1", gen) IN
      \A h \in W1.pending \ pending :
        LET W2 == engineThrow(W1, h) IN
        /\ RepliesTo(W2.out, c, h.rq) = 1
        /\ \A i \in Responses(W2.out) : ~W2.out[i].ok
        /\ MediaState(W2, h.peer) = MediaState(World, h.peer)

\* The producers a step adds to the producer map of Client p.
Added(p) == peerHeap'[p].producers \ peerHeap[p].producers

\* The Clients in the peer map of room r under another peerId than p's, whose
\* socket is open and is not p's.
OtherMembers(r, p) ==
  { q \in PeerOids : /\ q # p
                     /\ \E id \in PeerIds \ {peerHeap'[p].peerId} :
                          roomHeap'[r].peers[id] = q
                     /\ peerHeap'[q].ws \notin {0, peerHeap'[p].ws}
                     /\ conns'[peerHeap'[q].ws].st = "open" }

\* C17: after every successful produce by P in room R, the producer is in
\* R's index and every other current member of R is sent
\* newProducer{producerId, peerId, kind}, while P is not. In every step in
\* which a produce handler ends having created a producer for a Client whose
\* room is published, the room's index holds the producer, each other member
\* with an open socket is sent the event, and P's socket is not.
C17_ProduceAnnounced ==
  [][ \A h \in pending \ pending' :
        \A pid \in Added(h.peer) :
          LET peer == peerHeap'[h.peer]
              r == IF peer.roomId = "" THEN 0 ELSE rooms'[peer.roomId]
              ev == [Msg("newProducer") EXCEPT !.producerId = pid,
                                              !.peerId = peer.peerId,
                                              !.kind = h.arg]
          IN  (h.type = "produce" /\ r # 0) =>
                /\ \E e \in roomHeap'[r].producers : e.producerId = pid
                /\ \A q \in OtherMembers(r, h.peer) :
                      \E i \in 1..Len(out') :
                        out'[i] = [ev EXCEPT !.to = peerHeap'[q].ws]
                /\ \A i \in 1..Len(out') :
                      out'[i].type = "newProducer" => out'[i].to # peer.ws
    ]_vars

\* The server's state when destroyPeer(p) has finished its loop over the room
\* index (lines 187-208) and has sent every producerClosed it sends.
AfterClosedLoop(p) ==
  LET W == [World EXCEPT !.peerHeap[p].timer = FALSE]
      r == W.rooms[W.peerHeap[p].roomId]
  IN  destroyEntries(W, r, EntriesOf(W, r, W.peerHeap[p].peerId))

\* C18: when producerClosed is sent for a producer, the producer has already
\* been removed from both its peer's producer map and the room's index. For
\* every Client whose grace timer is about to fire in a published room, each
\* producerClosed sent by destroyPeer to the open socket of a Client with
\* another peerId, for one of the leaving Client's own producers, finds that producer in neither the Client's producer
\* map nor the index.
C18_ClosedAfterRemoval ==
  \A p \in PeerOids :
    (/\ peerHeap[p].timer
     /\ peerHeap[p].roomId # ""
     /\ rooms[peerHeap[p].roomId] # 0) =>
      LET W == AfterClosedLoop(p)
          r == rooms[peerHeap[p].roomId]
      IN  \A i \in 1..Len(W.out) :
            (/\ W.out[i].type = "producerClosed"
             /\ conns[W.out[i].to].st = "open"
             /\ \E q \in PeerOids : /\ peerHeap[q].ws = W.out[i].to
                                    /\ peerHeap[q].peerId # peerHeap[p].peerId
             /\ W.out[i].producerId \in peerHeap[p].producers) =>
              /\ W.out[i].producerId \notin W.peerHeap[p].producers
              /\ \A e \in W.roomHeap[r].producers :
                    e.producerId # W.out[i].producerId

\* C19: newProducer is sent to the other members only after the ok response
\* carrying the producer's id has been sent to the connection that asked to
\* produce. Every newProducer a step sends is preceded, among the messages of
\* that step, by the ok response of the produce handler that ends in the step,
\* sent to that handler's connection with its requestId and the same
\* producerId.
C19_ReplyBeforeAnnouncement ==
  [][ \A i \in 1..Len(out') :
        out'[i].type = "newProducer" =>
          \E h \in pending \ pending' :
            /\ h.type = "produce"
            /\ \E j \in 1..(i - 1) :
                  /\ out'[j].type = "response"
                  /\ out'[j].ok
                  /\ out'[j].to = h.ws
                  /\ out'[j].rq = h.rq
                  /\ out'[j].producerId = out'[i].producerId
    ]_vars

\* A produce has just been answered and announced to a member on another
\* connection.
C19_Witness ==
  \E i \in 2..Len(out) :
    /\ out[i].type = "newProducer"
    /\ out[1].type = "response"
    /\ out[1].ok
    /\ out[1].producerId = out[i].producerId
    /\ out[i].to # out[1].to

\* C20: createTransport for a direction the Client already holds closes the
\* existing transport before the new one is stored, so a Client has at most
\* one open transport per direction. In every step that stores a new
\* transport in a Client's send or recv slot, the transport the slot held
\* before is closed.
C20_RenewalClosesOld ==
  [][ \A p \in PeerOids :
        /\ (/\ peerHeap[p].send # 0
            /\ peerHeap'[p].send \notin {0, peerHeap[p].send}) =>
              ~transports'[peerHeap[p].send].open
        /\ (/\ peerHeap[p].recv # 0
            /\ peerHeap'[p].recv \notin {0, peerHeap[p].recv}) =>
              ~transports'[peerHeap[p].recv].open
    ]_vars

\* C21: room creation is idempotent by roomId. Among the room records that
\* have not been torn down there is at most one per roomId, and a room record
\* that holds a member is the one published under its roomId.
C21_OneRoomPerId ==
  /\ \A a, b \in RoomOids :
        (/\ roomHeap[a].id # ""
         /\ roomHeap[a].id = roomHeap[b].id
         /\ ~roomHeap[a].closed
         /\ ~roomHeap[b].closed) => a = b
  /\ \A r \in RoomOids :
        (/\ roomHeap[r].id # ""
         /\ ~roomHeap[r].closed
         /\ \E id \in PeerIds : roomHeap[r].peers[id] # 0) =>
          rooms[roomHeap[r].id] = r

\* C22: a room is unpublished, with its router and observer closed, exactly
\* when the last entry of its peer map is removed, and never while a session
\* record still has it as roomId. In every step that unpublishes a roomId the
\* room's router is closed, its peer map had an entry before and has none
\* after, and no registered session record has that roomId after the step;
\* and every step that empties the peer map of a published room unpublishes
\* it.
C22_TeardownWhenEmpty ==
  [][ \A id \in RoomIds :
        /\ (rooms[id] # 0 /\ rooms'[id] = 0) =>
              /\ roomHeap'[rooms[id]].closed
              /\ \E k \in PeerIds : roomHeap[rooms[id]].peers[k] # 0
              /\ \A k \in PeerIds : roomHeap'[rooms[id]].peers[k] = 0
              /\ \A p \in PeerOids :
                    (/\ peerHeap'[p].sessionId # ""
                     /\ sessions'[peerHeap'[p].sessionId] = p) =>
                      peerHeap'[p].roomId # id
        /\ (/\ rooms[id] # 0
            /\ \E k \in PeerIds : roomHeap[rooms[id]].peers[k] # 0
            /\ \A k \in PeerIds : roomHeap'[rooms[id]].peers[k] = 0) =>
              rooms'[id] = 0
    ]_vars

\* The peerIds of the Clients in the peer map of room r after a step.
MemberPeerIds(r) ==
  { peerHeap'[roomHeap'[r].peers[k]].peerId :
      k \in { q \in PeerIds : roomHeap'[r].peers[q] # 0 } }

\* C23: the existingPeers list of a successful join response holds exactly
\* the peerIds of the room's members other than the joining peer. In every
\* step in which a join is answered ok, whether on arrival or when its
\* getRoom call returns, the response's existingPeers equals the peerIds in
\* the room's peer map without the joining peer's own.
C23_ExistingPeersAreTheOthers ==
  [][ \A i \in Responses(out') :
        (/\ out'[i].ok
         /\ out'[i].roomId # ""
         /\ \/ \E h \in pending \ pending' :
                 h.type = "join" /\ h.ws = out'[i].to /\ h.rq = out'[i].rq
            \/ pending \subseteq pending' /\ Join(RoomInputs, {"s1"})) =>
          out'[i].peers =
            MemberPeerIds(rooms'[out'[i].roomId]) \ {out'[i].peerId}
    ]_vars

\* C24: a consume request for a producer the requesting peer owns is refused
\* and creates no consumer. No step suspends a consume handler in
\* transport.consume for a producer that is in the requesting Client's own
\* producer map, and no consume handler that ends adds a consumer for such a
\* producer to the Client's consumer map.
C24_NoSelfConsume ==
  [][ /\ \A h \in pending' \ pending :
            h.type = "consume" => h.producer \notin peerHeap[h.peer].producers
      /\ \A h \in pending \ pending' :
            (/\ h.type = "consume"
             /\ peerHeap'[h.peer].consumers # peerHeap[h.peer].consumers) =>
              h.producer \notin peerHeap[h.peer].producers
    ]_vars

\* C25: a join or resumeSession for a sessionId that has a record, on a
\* connection whose token peerId differs from the record's, fails with
\* "peerId mismatch" and leaves the record's grace timer, connection handle,
\* transports, producers and consumers and the room's indexes unchanged.
\* Every step that answers a request with that error changes nothing of the
\* server's state.
C25_PeerIdMismatchTouchesNothing ==
  [][ Refused(out', "peerId mismatch (session bound)") =>
        UNCHANGED <<conns, sessions, peerHeap, rooms, roomHeap, transports,
                    producers, pending>>
    ]_vars

\* The request was refused while the record of the session held a send
\* transport and was bound to another connection.
C25_Witness ==
  /\ Refused(out, "peerId mismatch (session bound)")
  /\ \E p \in PeerOids :
        /\ sessions["s1"] = p
        /\ peerHeap[p].send # 0
        /\ peerHeap[p].ws # out[1].to

\* C26: while a session's record exists, every successful join or
\* resumeSession response for the sessionId carries the same peerId, the
\* token-bound peerId of the requesting connection. Every ok response that
\* names a session carries the token peerId of the connection it is sent to
\* and, if that connection is the one the session's registered record is bound
\* to, the peerId of the record; and the peerId of a record does not change
\* while the record stays registered.
C26_StablePeerId ==
  [][ /\ \A i \in Responses(out') :
            (out'[i].ok /\ out'[i].sessionId # "") =>
              /\ out'[i].peerId = Trim(conns'[out'[i].to].tokenPeerId)
              /\ (/\ sessions'[out'[i].sessionId] # 0
                  /\ peerHeap'[sessions'[out'[i].sessionId]].ws = out'[i].to) =>
                    peerHeap'[sessions'[out'[i].sessionId]].peerId = out'[i].peerId
      /\ \A sid \in AllSessionIds :
            (sessions[sid] # 0 /\ sessions'[sid] = sessions[sid]) =>
              peerHeap'[sessions[sid]].peerId = peerHeap[sessions[sid]].peerId
    ]_vars

\* A session that was joined on one connection has been joined again on
\* another, which superseded the first, and was answered ok.
C26_Witness ==
  \E i \in Responses(out), c \in ConnIds :
    /\ out[i].ok
    /\ out[i].sessionId = "s1"
    /\ out[i].peerId = "p1"
    /\ c # out[i].to
    /\ conns[c].st \in {"closing", "closed"}
    /\ conns[c].tokenPeerId = "p1"

\* The state resetPeerMedia works on.
Silenced(W) == [W EXCEPT !.out = <<>>]

\* C27: resetPeerMedia is idempotent. For every Client of every reachable
\* state, running it twice leaves the Client's transports, its producer and
\* consumer maps, the room's producer index and speaking set, and all the rest
\* of the state, as running it once does, and neither run sends producerClosed.
C27_ResetIdempotent ==
  \A p \in PeerOids :
    peerHeap[p].sessionId # "" =>
      LET W1 == resetPeerMedia(World, p)
          W2 == resetPeerMedia(Silenced(W1), p)
      IN  /\ Silenced(W2) = Silenced(W1)
          /\ \A i \in 1..Len(W1.out) : W1.out[i].type # "producerClosed"
          /\ \A i \in 1..Len(W2.out) : W2.out[i].type # "producerClosed"

\* A Client in a published room holds a transport and a producer that is in
\* the room's index and speaking set: a reset has all of them to undo.
C27_Witness ==
  \E p \in PeerOids :
    /\ peerHeap[p].roomId # ""
    /\ rooms[peerHeap[p].roomId] # 0
    /\ peerHeap[p].send # 0
    /\ \E pid \in peerHeap[p].producers :
          /\ pid \in roomHeap[rooms[peerHeap[p].roomId]].speaking
          /\ \E e \in roomHeap[rooms[peerHeap[p].roomId]].producers :
                e.producerId = pid /\ e.peerId = peerHeap[p].peerId
    /\ Silenced(resetPeerMedia(World, p)) # Silenced(World)

\* The conditions the round trip is claimed under, for the payload signed by
\* the last call.
Signable ==
  /\ tokCall.res # "none"
  /\ tokCall.signed.roomId # ""
  /\ tokCall.signed.peerId # ""
  /\ tokCall.signed.jti # 0
  /\ tokCall.signed.iat <= tokCall.at + SkewSec
  /\ tokCall.signed.exp > tokCall.at

Said(o, pid, flag) ==
  Cardinality({ i \in 1..Len(o) : /\ o[i].type = "producerSpeaking"
                                  /\ o[i].producerId = pid
                                  /\ o[i].speaking = flag })

\* The entries of the peer map of room r: a broadcast sends one message each.
Audience(r) == Cardinality({ k \in PeerIds : roomHeap[r].peers[k] # 0 })

\* C30: after a level-observer event the room's speaking set equals the set
\* of producers the event reported active (empty for silence),
\* producerSpeaking{true} is broadcast for each reported producer, and
\* producerSpeaking{false} is broadcast exactly once for each producer that was
\* in the speaking set and is not reported active. This holds in every
\* reachable state for every live room, every volumes event its observer can
\* raise and its silence event; a broadcast is one message per peer-map entry.
C30_SpeakingFollowsEvents ==
  \A r \in RoomOids :
    (roomHeap[r] # NoRoom /\ ~roomHeap[r].closed) =>
      /\ \A active \in SUBSET roomHeap[r].observed :
            active # {} =>
              LET W == onVolumes(World, r, active) IN
              /\ W.roomHeap[r].speaking = active
              /\ \A pid \in DOMAIN producers :
                    /\ Said(W.out, pid, TRUE) =
                         (IF pid \in active THEN Audience(r) ELSE 0)
                    /\ Said(W.out, pid, FALSE) =
                         (IF pid \in roomHeap[r].speaking \ active
                            THEN Audience(r) ELSE 0)
      /\ LET W == onSilence(World, r) IN
         /\ W.roomHeap[r].speaking = {}
         /\ \A pid \in DOMAIN producers :
               /\ Said(W.out, pid, TRUE) = 0
               /\ Said(W.out, pid, FALSE) =
                    (IF pid \in roomHeap[r].speaking THEN Audience(r) ELSE 0)

\* A room with a listener in which one producer is in the speaking set after a
\* volumes event and another, attached to the observer, is not: the next
\* volumes event can report the second alone.
C30_Witness ==
  \E r \in RoomOids, a, b \in DOMAIN producers :
    /\ roomHeap[r] # NoRoom
    /\ ~roomHeap[r].closed
    /\ a # b
    /\ a \in roomHeap[r].speaking
    /\ b \in roomHeap[r].observed \ roomHeap[r].speaking
    /\ Audience(r) > 0
    /\ \E i \in 1..Len(out) : out[i].type = "producerSpeaking" /\ out[i].speaking

\* The registered Clients whose handle is connection c.
HeldBy(c) ==
  { p \in PeerOids : /\ peerHeap[p].sessionId # ""
                     /\ sessions[peerHeap[p].sessionId] = p
                     /\ peerHeap[p].ws = c }

\* C31: when a join or resumeSession adopts a record whose prior connection is
\* still open and differs from the new one, the prior connection is closed and
\* the record's handle becomes the new connection; the close event of the
\* superseded connection does not arm a grace timer for the peer. In every
\* step in which the server closes an open connection, a registered Client
\* that held it is afterwards bound to another, open connection with the same
\* token peerId and has no armed timer; and in every step in which the close
\* event of a connection the server closed is handled, each registered Client
\* bound to another connection stays registered with its timer as it was.
C31_SupersededCloseKeepsPeer ==
  [][ \A c \in ConnIds :
        /\ (conns[c].st = "open" /\ conns'[c].st = "closing") =>
             \E p \in HeldBy(c) :
                  /\ peerHeap'[p].ws # c
                  /\ conns'[peerHeap'[p].ws].st = "open"
                  /\ conns'[peerHeap'[p].ws].tokenPeerId = peerHeap[p].peerId
                  /\ ~peerHeap'[p].timer
        /\ (conns[c].st = "closing" /\ conns'[c].st = "closed") =>
             \A p \in PeerOids :
               (/\ peerHeap[p].sessionId # ""
                /\ sessions[peerHeap[p].sessionId] = p
                /\ peerHeap[p].ws # c) =>
                  /\ peerHeap'[p].timer = peerHeap[p].timer
                  /\ sessions'[peerHeap[p].sessionId] = p
    ]_vars

\* A Client that had joined a room on one connection has been adopted on
\* another: the first connection is being closed by the server, its close
\* event still to come, and the Client is bound to the second.
C31_Witness ==
  \E p \in PeerOids, c \in ConnIds :
    /\ peerHeap[p].sessionId # ""
    /\ sessions[peerHeap[p].sessionId] = p
    /\ peerHeap[p].roomId # ""
    /\ peerHeap[p].ws # c
    /\ conns[peerHeap[p].ws].st = "open"
    /\ ~peerHeap[p].timer
    /\ conns[c].st = "closing"
    /\ HeldBy(c) = {}

\* The reply fail(err) to the next request of connection c, and nothing else.
RefusalOf(W, c, err) == send(W, c, failMsg(NextRq(c), err))

\* The payload sessionIds that are missing, blank, or resolve to no Client.
Unresolved == { sid \in {"", " "} \cup SessionIds : Trim(sid) = "" \/ sessions[Trim(sid)] = 0 }

C33_TokenBoundSession ==
  \A c \in ConnIds :
    Listening(c) =>
      /\ conns[c].tokenSessionId # "" =>
           \A sid \in {"", " "} \cup SessionIds, type \in {"join", "resumeSession"},
              roomIdMsg \in {"", "r1"}, gen \in GenSessionIds :
             Trim(sid) # conns[c].tokenSessionId =>
               LET W == onJoin(World, c, NextRq(c), type, roomIdMsg, sid, gen) IN
               /\ Len(W.out) = 1
               /\ W.out[1].type = "response" /\ ~W.out[1].ok /\ W.out[1].to = c
               /\ [W EXCEPT !.out = <<>>] = World
      /\ (conns[c].tokenSessionId = "" /\ HasFree(peerHeap, NoPeer)) =>
           \A sid \in {"", " "}, gen \in GenSessionIds :
             sessions[gen] = 0 =>
               LET W == onJoin(World, c, NextRq(c), "join", conns[c].tokenRoomId, sid, gen)
                   n == Fresh(peerHeap, NoPeer)
               IN  /\ W.sessions[gen] = n
                   /\ W.peerHeap[n].sessionId = gen
                   /\ W.peerHeap[n].peerId = conns[c].tokenPeerId
                   /\ W.peerHeap[n].ws = c
                   /\ \A s \in AllSessionIds \ {gen} : W.sessions[s] = sessions[s]
                   /\ \A q \in PeerOids \ {n} : W.peerHeap[q] = peerHeap[q]
                   /\ \A i \in 1..Len(W.out) : W.out[i].type = "response" => W.out[i].ok

\* A join naming another session was refused on a connection bound to session
\* s1 while the record of s1 exists, after a join without sessionId on an
\* unbound connection had created a record under a generated id.
C33_Witness ==
  /\ Refused(out, "sessionId mismatch (token-bound)")
  /\ \E i \in Responses(out) : conns[out[i].to].tokenSessionId = "s1"
  /\ sessions["s1"] # 0
  /\ \E p \in PeerOids : peerHeap[p].sessionId \in GenSessionIds

\* C34: a verifyToken call that fails for any reason adds no entry to the
\* used-jti table; a jti is recorded only by a call that returns the payload
\* with consumeJti = true. In every step, an entry that the table gains, or
\* whose eviction time changes, is the jti of the token of a call made in that
\* step that returned "ok" with consumeJti, recorded with the token's exp; and
\* a call that failed left every entry it did not reap as it was.
C34_FailureRecordsNothing ==
  [][ /\ \A j \in TokJtis :
            (usedJti'[j] # 0 /\ usedJti'[j] # usedJti[j]) =>
              /\ tokCall'.res = "ok"
              /\ tokCall'.opts.consumeJti
              /\ tokCall'.tok.jti = j
              /\ tokCall'.tok.exp = usedJti'[j]
              /\ tokCall'.at = now
      /\ (tokCall' # tokCall /\ tokCall'.res # "ok") =>
            \A j \in TokJtis : usedJti'[j] \in {0, usedJti[j]}
    ]_vars

\* A consuming call has just failed on a token whose jti is not in the table,
\* which holds the jti of an earlier accepted token.
C34_Witness ==
  /\ tokCall.res \notin {"none", "ok", "replayed"}
  /\ tokCall.opts.consumeJti
  /\ tokCall.tok.jti \in TokJtis
  /\ usedJti[tokCall.tok.jti] = 0
  /\ \E j \in TokJtis : usedJti[j] # 0

\* The places of o at which connection c is sent a message of the given type
\* about producer pid (0: any) of peerId.
SentAt(o, c, type, pid, peerId) ==
  { i \in 1..Len(o) : /\ o[i].to = c /\ o[i].type = type /\ o[i].peerId = peerId
                      /\ (pid # 0 => o[i].producerId = pid) }

\* C35: during the final destruction of a peer, every remaining member of the
\* room is sent producerClosed for all of the departing peer's producers before
\* it is sent peerLeft for that peer, for each producer that was speaking
\* producerSpeaking{speaking: false} is sent before that producer's
\* producerClosed, and the room is unpublished only after all these events.
\* In every reachable state, for every registered Client with an armed timer
\* in a published room, the expiry of the timer sends each connection: before
\* every peerLeft, a producerClosed for each producer the Client holds and for
\* each entry it has in the index, and none after; before every producerClosed
\* of a producer in the speaking set, a producerSpeaking false for it, and none
\* after; and when peerLeft has been broadcast the room is still published and
\* no event follows.
C35_DestroyOrder ==
  \A p \in PeerOids :
    (/\ peerHeap[p].sessionId # ""
     /\ sessions[peerHeap[p].sessionId] = p
     /\ peerHeap[p].timer
     /\ peerHeap[p].roomId # ""
     /\ rooms[peerHeap[p].roomId] # 0) =>
      LET r == rooms[peerHeap[p].roomId]
          id == peerHeap[p].peerId
          W0 == [World EXCEPT !.peerHeap[p].timer = FALSE]
          o == onGraceExpired(World, p).out
          owned == peerHeap[p].producers
                     \cup { e.producerId : e \in EntriesOf(World, r, id) }
      IN  /\ \A c \in ConnIds :
                /\ \A i \in SentAt(o, c, "peerLeft", 0, id) :
                     /\ \A pid \in owned :
                          \E j \in SentAt(o, c, "producerClosed", pid, id) : j < i
                     /\ \A j \in SentAt(o, c, "producerClosed", 0, id) : j < i
                /\ \A pid \in owned \cap roomHeap[r].speaking :
                     \A j \in SentAt(o, c, "producerClosed", pid, id) :
                       /\ \E i \in SentAt(o, c, "producerSpeaking", pid, id) :
                            i < j /\ ~o[i].speaking
                       /\ \A i \in SentAt(o, c, "producerSpeaking", pid, id) : i < j
          /\ destroyNotify(W0, p, r).rooms[peerHeap[p].roomId] = r
          /\ destroyNotify(W0, p, r).out = o

\* The peerJoined messages of o.
Joined(o) == { i \in 1..Len(o) : o[i].type = "peerJoined" }

\* What a join / resumeSession handler that runs to its end in one turn leaves:
\* W is the state it leaves, c its connection, rq its request, p its Client.
\* A join that was answered ok has sent peerJoined to the connection of every
\* entry of the peer map of the room now published that has another peerId;
\* and no peerJoined names the peerId the token of its recipient binds.
JoinAnnounced(W, c, rq, type, p) ==
  LET peer == W.peerHeap[p]
      r == IF peer.roomId = "" THEN 0 ELSE W.rooms[peer.roomId]
      answered == \E i \in 1..Len(W.out) :
                    /\ W.out[i].type = "response" /\ W.out[i].ok
                    /\ W.out[i].to = c /\ W.out[i].rq = rq
  IN  /\ (type = "join" /\ answered /\ r # 0) =>
           \A k \in PeerIds \ {peer.peerId} :
             W.roomHeap[r].peers[k] # 0 =>
               \E i \in Joined(W.out) :
                 /\ W.out[i].to = W.peerHeap[W.roomHeap[r].peers[k]].ws
                 /\ W.out[i].peerId = peer.peerId
      /\ \A i \in Joined(W.out) :
           /\ W.out[i].peerId = peer.peerId
           /\ W.conns[W.out[i].to].tokenPeerId # W.out[i].peerId

\* C36: resumeSession broadcasts peerJoined only when the peer was not already
\* a member of a room (its roomId was unset); a resumeSession for a peer that
\* is still a member of its room during grace sends no peerJoined, whereas
\* every successful join sends peerJoined to every other member; peerJoined is
\* never sent to the peer it names. In every reachable state: a resumeSession
\* request for a registered Client with a roomId sends no peerJoined and
\* suspends nothing, so the resumeSession handlers that resume from getRoom, and
\* may then broadcast, are those whose Client had no roomId; and every join or
\* resumeSession handler, run from the request or resumed from getRoom,
\* announces as described above.
C36_PeerJoinedOnEntry ==
  /\ \A c \in DOMAIN conns, sid \in SessionInputs, gen \in GenSessionIds,
        type \in {"join", "resumeSession"} :
       LET roomIdMsg == conns[c].tokenRoomId
           tgt == JoinTarget(World, c, roomIdMsg, sid, gen)
           W == onJoin(World, c, NextRq(c), type, roomIdMsg, sid, gen)
       IN  (/\ Listening(c)
            /\ sessions[gen] = 0
            /\ tgt # 0
            /\ CanHandle(tgt, Trim(roomIdMsg))) =>
             /\ (type = "resumeSession" /\ peerHeap[tgt].roomId # "") =>
                  /\ Joined(W.out) = {}
                  /\ W.pending = pending
             /\ JoinAnnounced(W, c, NextRq(c), type, tgt)
  /\ \A h \in pending :
       h.stage = "getRoom" =>
         JoinAnnounced(publishRoom(World, h), h.ws, h.rq, h.type, h.peer)

\* A Client whose connection dropped is still in the peer map of its room, with
\* its grace timer armed, beside a member with another peerId whose connection
\* is open: a resumeSession for it is the case of the second sentence, a join
\* that of the third.
C36_Witness ==
  \E p \in PeerOids, q \in PeerOids, c \in DOMAIN conns :
    /\ peerHeap[p].sessionId # ""
    /\ sessions[peerHeap[p].sessionId] = p
    /\ peerHeap[p].timer
    /\ RoomOf(p) # 0
    /\ InPeerMap(p, RoomOf(p))
    /\ peerHeap[q].peerId \in PeerIds \ {peerHeap[p].peerId}
    /\ InPeerMap(q, RoomOf(p))
    /\ conns[peerHeap[q].ws].st = "open"
    /\ Listening(c)
    /\ conns[c].tokenPeerId = peerHeap[p].peerId
    /\ c # peerHeap[q].ws

\* C37: in every reachable state a peer record has an armed grace timer only
\* if its current connection handle is closed; hence destroyPeer triggered by
\* grace expiry never destroys a peer whose current connection is open. Every
\* Client whose timer is armed is bound to a connection whose close event has
\* been handled; and so is, in the state in which its timer fires, every
\* Client that leaves the session registry in a step.
C37_TimerOnlyWhenClosed ==
  [][ /\ \A p \in PeerOids :
           peerHeap[p].timer => conns[peerHeap[p].ws].st = "closed"
      /\ \A p \in PeerOids :
           peerHeap'[p].timer => conns'[peerHeap'[p].ws].st = "closed"
      /\ \A p \in Records :
           sessions'[peerHeap[p].sessionId] # p =>
             conns[peerHeap[p].ws].st = "closed"
    ]_vars

\* A Client in a room has its grace timer armed, its connection closed, while
\* another Client of the room is bound to an open connection and has none.
C37_Witness ==
  \E p \in PeerOids, q \in PeerOids :
    /\ p \in Records
    /\ peerHeap[p].timer
    /\ conns[peerHeap[p].ws].st = "closed"
    /\ RoomOf(p) # 0
    /\ q \in Records
    /\ q # p
    /\ ~peerHeap[q].timer
    /\ conns[peerHeap[q].ws].st = "open"
    /\ peerHeap[q].roomId = peerHeap[p].roomId

\* C38: in every reachable state each connection is the handle of at most one
\* session record, so that the first-match scan of the close handler arms a
\* grace timer for every session record holding the connection that closed:
\* no registered Client is left with a closed connection and no armed timer.
C38_OneRecordPerConnection ==
  /\ \A c \in ConnIds : Cardinality(HeldBy(c)) <= 1
  /\ \A p \in Records :
       conns[peerHeap[p].ws].st = "closed" => peerHeap[p].timer

\* C39: a join or resumeSession answered ok:false "roomId mismatch" because
\* the session's record is a member of another room than the token room of the
\* requesting connection leaves that record's grace timer, connection handle,
\* transports, producers and consumers and its room's producer index
\* unchanged. In every step that sends that refusal, every registered Client
\* keeps its timer, handle, transports and producer and consumer maps, and
\* every room its producer index.
C39_RoomMismatchTouchesNothing ==
  [][ Refused(out', "roomId mismatch") =>
        /\ \A p \in Records :
             /\ peerHeap'[p].timer = peerHeap[p].timer
             /\ peerHeap'[p].ws = peerHeap[p].ws
             /\ peerHeap'[p].send = peerHeap[p].send
             /\ peerHeap'[p].recv = peerHeap[p].recv
             /\ peerHeap'[p].producers = peerHeap[p].producers
             /\ peerHeap'[p].consumers = peerHeap[p].consumers
        /\ \A r \in RoomOids : roomHeap'[r].producers = roomHeap[r].producers
    ]_vars

\* The open media objects stored on Client p: the transports of its send and
\* recv slots and its producers, as far as they are open.
OpenMediaOf(p) ==
  { <<"transport", t>> : t \in { u \in {peerHeap[p].send, peerHeap[p].recv} :
                                   u # 0 /\ transports[u].open } }
    \cup { <<"producer", q>> : q \in { u \in peerHeap[p].producers : producers[u].open } }

\* C40: a Client that is no longer in the session registry (destroyed) stores
\* no open transport and no open producer, and every entry that a step adds to
\* the producer index of a published room names the peerId of a Client that is
\* in the session registry after the step: a handler resuming after its
\* media-engine call attaches nothing to a peer that has gone in the meantime.
C40_ResumeAttachesToLivePeer ==
  [][ /\ \A p \in PeerOids :
           (peerHeap'[p].sessionId # "" /\ p \notin Records') => OpenMediaOf(p)' = {}
      /\ \A r \in Published' :
           \A e \in roomHeap'[r].producers \ roomHeap[r].producers :
             \E p \in Records' : /\ peerHeap'[p].peerId = e.peerId
                                 /\ e.producerId \in peerHeap'[p].producers
    ]_vars

\* C9: every session record whose connection has closed is eventually
\* re-attached to an open connection or removed from the session registry.
C9_ClosedRecordCollected ==
  \A p \in PeerOids :
    (p \in Records /\ conns[peerHeap[p].ws].st = "closed")
      ~> (p \notin Records \/ conns[peerHeap[p].ws].st = "open")

\* The session records in the room of p that remain when p goes: they carry
\* p's roomId, their connection is open and their own join / resumeSession has
\* been answered.
Remaining(p) ==
  { q \in Records \ {p} :
      /\ peerHeap[q].roomId = peerHeap[p].roomId
      /\ conns[peerHeap[q].ws].st = "open"
      /\ \A h \in pending : h.peer # q }

ToldClosed(c, pid, peerId) ==
  \E i \in 1..Len(out) :
    /\ out[i].to = c /\ out[i].type = "producerClosed" /\ out[i].producerId = pid
    /\ out[i].peerId = peerId /\ out[i].reason = "left"

\* C10: when the grace timer of a peer in a room expires, every remaining
\* member of the room is sent producerClosed (reason "left") for each producer
\* the peer owned and peerLeft with the peer's peerId, and the record leaves
\* the session registry; a record created later for a sessionId is fresh: no
\* transports, producers or consumers.
C10_GraceExpiryNotifiesRoom ==
  [][ /\ \A p \in Records :
           peerHeap[p].timer /\ RoomOf(p) # 0 /\ p \notin Records'
             => /\ sessions'[peerHeap[p].sessionId] = 0
                /\ \A q \in Remaining(p) :
                     /\ Told(peerHeap[q].ws, "peerLeft", peerHeap[p].peerId)'
                     /\ \A pid \in peerHeap[p].producers :
                          ToldClosed(peerHeap[q].ws, pid, peerHeap[p].peerId)'
      /\ \A sid \in AllSessionIds :
           sessions[sid] = 0 /\ sessions'[sid] # 0
             => /\ peerHeap[sessions'[sid]] = NoPeer
                /\ peerHeap'[sessions'[sid]].send = 0
                /\ peerHeap'[sessions'[sid]].recv = 0
                /\ peerHeap'[sessions'[sid]].producers = {}
                /\ peerHeap'[sessions'[sid]].consumers = {}
    ]_vars

====
